---- MODULE Spec2Model ----
(***************************************************************************)
(* Model of the hypershift-toolkit AWS installer: the Ensure/Remove        *)
(* reconcilers of contrib/pkg/aws (apply.go), the name derivation of       *)
(* install.go (getName and its callers) and UninstallCluster               *)
(* (uninstall.go).                                                         *)
(*                                                                         *)
(* Strings are sequences of byte values (ASCII codes), so that len(),      *)
(* slicing, fmt.Sprintf concatenation and the FNV-1a hash are computed as  *)
(* the Go code computes them.                                              *)
(***************************************************************************)
EXTENDS Integers, Sequences, FiniteSets, TLC

VARIABLES
    cloud,   \* the AWS account and the management cluster's API objects
    last,    \* the reconciler call that ran last: inputs, result, API calls issued
    scope,   \* the resource group the reconciler calls of this behaviour work on
    ins,     \* InstallCluster: position, result, identities the steps returned
    un,      \* UninstallCluster: position, result, steps taken so far
    gn,      \* one getName call: base, suffix, maxLength, returned name
    nm,      \* one cluster identity and the names install and uninstall derive
    wt,      \* one waitForNodesReady call: the nodes, elapsed time, result
    am,      \* one applyManifests call: attempts made, result
    ins2     \* an InstallCluster run for a second cluster name

vars == <<cloud, last, scope, ins, un, gn, nm, wt, am, ins2>>

(***************************************************************************)
(* Bounds of the model.                                                    *)
(***************************************************************************)
MaxBaseLen == 13     \* longest base string given to getName
MaxSuffixLen == 3    \* longest suffix given to getName
MaxMaxLength == 13   \* largest maxLength given to getName
MaxInfraLen == 27    \* longest infrastructure name
MaxAddresses == 2     \* Elastic IPs the account holds at a time
MaxNegLength == 1     \* most negative maxLength given to getName
MaxManualDeletes == 3 \* resources removed by hand before an uninstall
MaxNodes == 2         \* nodes of the new cluster
MaxRuns == 2          \* runs of the installer for one cluster name
MaxFaultAt == 3       \* the API call of a step that the provider fails, at most
MaxOperators == 2     \* cluster operators of the new cluster
MaxObjects == 3       \* objects an ignition bucket holds at a time
MaxKeys == 2          \* keys one page of an object listing carries
AddrBits == 4         \* bits of an IP address (32 for IPv4)

(***************************************************************************)
(* Byte strings.                                                           *)
(***************************************************************************)
DASH == <<45>>
DOT == <<46>>
NoStr == <<>>

\* The value a call evaluates to when a Go slice expression is out of range
\* (a run-time panic); no string contains a negative byte.
Panic == <<-1>>

RECURSIVE Rep(_, _)
Rep(c, n) == IF n <= 0 THEN <<>> ELSE <<c>> \o Rep(c, n - 1)

\* s[lo:hi] of Go is defined for 0 <= lo <= hi <= len(s)
SliceOK(s, lo, hi) == 0 <= lo /\ lo <= hi /\ hi <= Len(s)
Slice(s, lo, hi) == SubSeq(s, lo + 1, hi)

max(a, b) == IF b > a THEN b ELSE a
min(a, b) == IF b < a THEN b ELSE a

(***************************************************************************)
(* hash: 32-bit FNV-1a of the bytes of s, printed with %08x.  The 32-bit   *)
(* state is kept as two 16-bit halves <<hi, lo>>; every product below      *)
(* stays under 2^31.                                                       *)
(***************************************************************************)
RECURSIVE XorBits(_, _, _)
XorBits(a, b, n) ==
    IF n = 0 THEN 0
    ELSE (((a % 2) + (b % 2)) % 2) + 2 * XorBits(a \div 2, b \div 2, n - 1)

\* offset basis 2166136261 = 0x811C9DC5
FnvOffset == <<33052, 40389>>

\* h := (h XOR b) * 16777619 mod 2^32, with 16777619 = 2^24 + 403
FnvStep(h, b) ==
    LET lo1 == (h[2] - (h[2] % 256)) + XorBits(h[2] % 256, b, 8)
        hi1 == h[1]
        lowProd == lo1 * 403
        hiSum == (hi1 * 403) + (lowProd \div 65536) + ((lo1 % 256) * 256)
    IN <<hiSum % 65536, lowProd % 65536>>

RECURSIVE FnvFold(_, _, _)
FnvFold(h, s, i) ==
    IF i > Len(s) THEN h
    ELSE LET h1 == FnvStep(h, s[i])
         IN IF h1[1] >= 0 THEN FnvFold(h1, s, i + 1) ELSE h1   \* (h1 is computed first)

HexDigit(d) == IF d < 10 THEN 48 + d ELSE 87 + d
Hex4(v) == <<HexDigit(v \div 4096), HexDigit((v \div 256) % 16),
             HexDigit((v \div 16) % 16), HexDigit(v % 16)>>

hash(s) == LET h == FnvFold(FnvOffset, s, 1) IN Hex4(h[1]) \o Hex4(h[2])

(***************************************************************************)
(* getName and the three name generators.                                  *)
(***************************************************************************)
\* getName that leaves 9 bytes, not 10, for "-hash-" next to the suffix.
getName_NineForHash(base, suffix, maxLength) ==
    IF maxLength <= 0 THEN NoStr
    ELSE
    LET name == base \o DASH \o suffix IN
    IF Len(name) <= maxLength THEN name
    ELSE
    LET baseLength == maxLength - 9 - Len(suffix) IN
    IF baseLength < 0
    THEN LET prefix == Slice(base, 0, min(Len(base), max(0, maxLength - 9)))
             shortName == prefix \o DASH \o hash(name)
         IN Slice(shortName, 0, min(maxLength, Len(shortName)))
    ELSE IF ~SliceOK(base, 0, baseLength) THEN Panic
         ELSE Slice(base, 0, baseLength) \o DASH \o hash(base) \o DASH \o suffix

\* getName that takes the naive name only when it is shorter than maxLength.
getName_StrictFit(base, suffix, maxLength) ==
    IF maxLength <= 0 THEN NoStr
    ELSE
    LET name == base \o DASH \o suffix IN
    IF Len(name) < maxLength THEN name
    ELSE
    LET baseLength == maxLength - 10 - Len(suffix) IN
    IF baseLength < 0
    THEN LET prefix == Slice(base, 0, min(Len(base), max(0, maxLength - 9)))
             shortName == prefix \o DASH \o hash(name)
         IN Slice(shortName, 0, min(maxLength, Len(shortName)))
    ELSE IF ~SliceOK(base, 0, baseLength) THEN Panic
         ELSE Slice(base, 0, baseLength) \o DASH \o hash(base) \o DASH \o suffix

getName(base, suffix, maxLength) ==
    IF maxLength <= 0 THEN NoStr
    ELSE
    LET name == base \o DASH \o suffix IN
    IF Len(name) <= maxLength THEN name
    ELSE
    LET baseLength == maxLength - 10 - Len(suffix) IN
    IF baseLength < 0
    THEN LET cut == min(Len(base), max(0, maxLength - 9)) IN
         IF ~SliceOK(base, 0, cut) THEN Panic
         ELSE LET prefix == Slice(base, 0, cut)
                  shortName == prefix \o DASH \o hash(name)
                  end == min(maxLength, Len(shortName))
              IN IF ~SliceOK(shortName, 0, end) THEN Panic
                 ELSE Slice(shortName, 0, end)
    ELSE IF ~SliceOK(base, 0, baseLength) THEN Panic
         ELSE Slice(base, 0, baseLength) \o DASH \o hash(base) \o DASH \o suffix

generateLBResourceName(infraName, clusterName, suffix) ==
    getName(infraName \o DASH \o clusterName, suffix, 32)

generateBucketName(infraName, clusterName, suffix) ==
    getName(infraName \o DASH \o clusterName, suffix, 63)

generateMachineSetName(infraName, clusterName, suffix) ==
    getName(infraName \o DASH \o clusterName, suffix, 43)

(***************************************************************************)
(* String literals of the program.                                         *)
(***************************************************************************)
S_api == <<97, 112, 105>>                      \* "api"
S_oauth == <<111, 97, 117, 116, 104>>          \* "oauth"
S_vpn == <<118, 112, 110>>                     \* "vpn"
S_apps == <<97, 112, 112, 115>>                \* "apps"
S_http == <<104, 116, 116, 112>>               \* "http"
S_https == <<104, 116, 116, 112, 115>>         \* "https"
S_ign == <<105, 103, 110>>                     \* "ign"
S_worker == <<119, 111, 114, 107, 101, 114>>   \* "worker"
S_workerSG == <<45, 119, 111, 114, 107, 101, 114, 45, 115, 103>>   \* "-worker-sg"
S_workerIgn == <<119, 111, 114, 107, 101, 114, 46, 105, 103, 110>> \* "worker.ign"
S_bootstrapIgn == <<98, 111, 111, 116, 115, 116, 114, 97, 112, 46, 105, 103, 110>> \* "bootstrap.ign"
S_apiDot == <<97, 112, 105, 46>>               \* "api."
S_vpnDot == <<118, 112, 110, 46>>              \* "vpn."
S_starApps == <<42, 46, 97, 112, 112, 115, 46>>        \* "*.apps."
S_escStarApps == <<92, 48, 53, 50, 46, 97, 112, 112, 115, 46>> \* "\\052.apps."

(***************************************************************************)
(* The cloud account and the management cluster, as the reconcilers see    *)
(* them.  Identities (allocation ids, ARNs) are opaque to the program,     *)
(* which only stores them and compares them: they are positive numbers,    *)
(* and nextId is the one the provider hands out next (see WithFreshId);    *)
(* 0 stands for the empty string.                                          *)
(*   eips       [id, tag, lb]: an address, its Name tag (NoStr: untagged), *)
(*              and the load balancer whose network interface holds it     *)
(*              (0: no interface attached)                                 *)
(*   lbs        [arn, name, subnet, alloc]                                 *)
(*   tgs        [arn, name, port, proto, hcPort]                           *)
(*   targets    [tg, id]                                                   *)
(*   listeners  [arn, lb, port, tg, proto]                                 *)
(*   dns        [zone, name, value]: CNAME record sets                     *)
(*   sgs        [name, perms]: perms is a set of [proto, from, to, cidr]   *)
(*   buckets    [name, objs, tagged]                                       *)
(*   machinesets, namespaces: names of objects of the management cluster   *)
(*   objects    [ns, kind, name]: Secrets and Services of the namespaces   *)
(*   scc        [users, version]: the privileged SecurityContextConstraints*)
(*              object, users holding the namespaces whose default service *)
(*              account it lists, version its resourceVersion              *)
(*   saPull     the namespaces whose default service account lists         *)
(*              pull-secret among its imagePullSecrets                     *)
(*   userData   the clusters whose <name>-user-data Secret is in the       *)
(*              openshift-machine-api namespace                            *)
(*   cpConfig   [exists, ca]: the config map control-plane-operator of the *)
(*              control plane's namespace, ca its Data["initial-ca.crt"]   *)
(*   kubeletCA  [exists, hasData, ca]: the config map kubelet-serving-ca   *)
(*              of openshift-config-managed in the target cluster, hasData *)
(*              telling whether its Data map is non-nil, ca the value read *)
(*              at "ca-bundle.crt" ("" when the key is absent)             *)
(***************************************************************************)
EmptyCloud ==
    [nextId |-> 0, eips |-> {}, lbs |-> {}, tgs |-> {}, targets |-> {},
     listeners |-> {}, dns |-> {}, sgs |-> {}, buckets |-> {},
     machinesets |-> {}, namespaces |-> {},
     objects |-> {}, scc |-> [users |-> {}, version |-> 0], saPull |-> {},
     userData |-> {},
     cpConfig |-> [exists |-> FALSE, ca |-> ""],
     kubeletCA |-> [exists |-> FALSE, hasData |-> FALSE, ca |-> ""]]

\* One API call as recorded in a call log.
Call(api, on) == [api |-> api, on |-> on]

\* What a reconciler call leaves behind: the cloud, the value returned (0 when
\* the function returns only an error), the error ("" is nil) and the API
\* calls issued, in order.
Ret(c, ret, err, calls) == [cloud |-> c, ret |-> ret, err |-> err, calls |-> calls]

\* The environment makes the API call number k of a reconciler call fail with
\* an error that is no not-found error (fault = 0: no call fails).
Fault(fault, calls) == fault = Len(calls) + 1

MinOf(S) == CHOOSE x \in S : \A y \in S : x <= y

(***************************************************************************)
(* Elastic IP reconciler.                                                  *)
(***************************************************************************)
\* DescribeAddresses filtered by tag:Name
AddressesNamed(c, name) == {a \in c.eips : a.tag = name}

\* Addresses[0] of a non-empty answer
FirstAddress(c, name) ==
    LET S == AddressesNamed(c, name)
    IN CHOOSE a \in S : a.id = MinOf({b.id : b \in S})

\* EnsureEIP without the reuse of a tagged address: it allocates every time.
EnsureEIP_AlwaysAllocate(c, name, fault) ==
    LET c1 == <<Call("DescribeAddresses", name)>>
        c2 == Append(c1, Call("AllocateAddress", name))
        allocID == c.nextId
    IN
    IF Fault(fault, <<>>) THEN Ret(c, 0, "Fault", c1)
    ELSE IF Fault(fault, c1) THEN Ret(c, 0, "Fault", c2)
    ELSE Ret([c EXCEPT !.nextId = @ + 1,
                       !.eips = @ \cup {[id |-> allocID, tag |-> name, lb |-> 0]}],
             allocID, "", c2)

EnsureEIP(c, name, fault) ==
    LET c1 == <<Call("DescribeAddresses", name)>> IN
    IF Fault(fault, <<>>) THEN Ret(c, 0, "Fault", c1)
    ELSE IF AddressesNamed(c, name) # {}
    THEN Ret(c, FirstAddress(c, name).id, "", c1)
    ELSE
    LET c2 == Append(c1, Call("AllocateAddress", name)) IN
    IF Fault(fault, c1) THEN Ret(c, 0, "Fault", c2)
    ELSE
    LET allocID == c.nextId
        cA == [c EXCEPT !.nextId = @ + 1,
                        !.eips = @ \cup {[id |-> allocID, tag |-> NoStr, lb |-> 0]}]
        c3 == Append(c2, Call("CreateTags", name))
    IN
    IF Fault(fault, c2) THEN Ret(cA, 0, "Fault", c3)
    ELSE Ret([cA EXCEPT !.eips = {IF a.id = allocID THEN [a EXCEPT !.tag = name] ELSE a
                                    : a \in @}],
             allocID, "", c3)

\* wait.PollImmediate(15*time.Second, 4*time.Minute, ...): the condition runs
\* at once and then every interval until the timeout.
PollInterval == 15
PollTimeout == 240
MaxPollCount == 1 + (PollTimeout \div PollInterval)

RECURSIVE Polls(_, _)
Polls(name, n) == IF n = 0 THEN <<>> ELSE Append(Polls(name, n - 1), Call("DescribeAddresses", name))

\* RemoveEIP without the wait for the interface to go: it releases the address
\* at its first poll, whatever that poll saw.
RemoveEIP_ReleasesAttached(c, name, freeAt, fault) ==
    IF Fault(fault, <<>>) THEN Ret(c, 0, "Fault", Polls(name, 1))
    ELSE IF AddressesNamed(c, name) = {} THEN Ret(c, 0, "", Polls(name, 1))
    ELSE
    LET allocationID == FirstAddress(c, name).id
        c2 == Append(Polls(name, 1), Call("ReleaseAddress", allocationID))
    IN
    IF fault > 1 THEN Ret(c, 0, "Fault", c2)
    ELSE Ret([c EXCEPT !.eips = {a \in @ : a.id # allocationID}], 0, "", c2)

\* The interface of a deleted load balancer is cleaned up by the provider some
\* time after the deletion: freeAt is the poll that first sees the address
\* without interface (0: no poll within the timeout does).  An address held by
\* a live load balancer keeps its interface.
RemoveEIP(c, name, freeAt, fault) ==
    IF Fault(fault, <<>>) THEN Ret(c, 0, "Fault", Polls(name, 1))
    ELSE IF AddressesNamed(c, name) = {} THEN Ret(c, 0, "", Polls(name, 1))
    ELSE
    LET address == FirstAddress(c, name)
        allocationID == address.id
        live == \E lb \in c.lbs : lb.arn = address.lb
        seenFree == IF address.lb = 0 THEN 1
                    ELSE IF live THEN 0
                    ELSE freeAt
    IN
    IF seenFree = 0 THEN Ret(c, 0, "Timeout", Polls(name, MaxPollCount))
    ELSE
    LET cF == [c EXCEPT !.eips = {IF a.id = allocationID THEN [a EXCEPT !.lb = 0] ELSE a
                                    : a \in @}]
        c1 == Polls(name, seenFree)
        c2 == Append(c1, Call("ReleaseAddress", allocationID))
    IN
    IF allocationID = 0 THEN Ret(cF, 0, "NoAllocationID", c1)
    ELSE IF fault > 1 THEN Ret(cF, 0, "Fault", c2)
    ELSE Ret([cF EXCEPT !.eips = {a \in @ : a.id # allocationID}], 0, "", c2)

(***************************************************************************)
(* Network load balancer reconciler.  DescribeLoadBalancers by name        *)
(* answers LoadBalancerNotFound when no load balancer has the name.        *)
(***************************************************************************)
LBsNamed(c, name) == {lb \in c.lbs : lb.name = name}

\* EnsureNLB had it given the address back when the creation fails
EnsureNLB_ReleasesOnFailure(c, nlbName, subnet, eipAllocID, fault) ==
    LET c1 == <<Call("DescribeLoadBalancers", nlbName)>>
        notFound == LBsNamed(c, nlbName) = {}
    IN
    IF Fault(fault, <<>>) THEN Ret(c, 0, "Fault", c1)
    ELSE IF ~notFound
    THEN Ret(c, (CHOOSE lb \in LBsNamed(c, nlbName) : TRUE).arn, "", c1)
    ELSE
    LET c2 == Append(c1, Call("CreateLoadBalancer", nlbName))
        arn == c.nextId
        lb == [arn |-> arn, name |-> nlbName, subnet |-> subnet, alloc |-> eipAllocID]
    IN
    IF Fault(fault, c1)
    THEN Ret([c EXCEPT !.eips = {a \in @ : a.id # eipAllocID}], 0, "Fault", c2)
    ELSE Ret([c EXCEPT !.nextId = @ + 1,
                       !.lbs = @ \cup {lb},
                       !.eips = {IF eipAllocID # 0 /\ a.id = eipAllocID
                                 THEN [a EXCEPT !.lb = arn] ELSE a : a \in @}],
             arn, "", c2)

\* EnsureNLB had it brought an existing load balancer to the requested subnet
\* and allocation: a SetSubnets call when they differ.
EnsureNLB_UpdatesExisting(c, nlbName, subnet, eipAllocID, fault) ==
    LET c1 == <<Call("DescribeLoadBalancers", nlbName)>>
        notFound == LBsNamed(c, nlbName) = {}
    IN
    IF Fault(fault, <<>>) THEN Ret(c, 0, "Fault", c1)
    ELSE IF ~notFound
    THEN LET lb == CHOOSE l \in LBsNamed(c, nlbName) : TRUE
             c2 == Append(c1, Call("SetSubnets", nlbName))
         IN IF lb.subnet = subnet /\ lb.alloc = eipAllocID THEN Ret(c, lb.arn, "", c1)
            ELSE Ret([c EXCEPT !.lbs = (@ \ {lb}) \cup
                                        {[lb EXCEPT !.subnet = subnet, !.alloc = eipAllocID]}],
                     lb.arn, "", c2)
    ELSE
    LET c2 == Append(c1, Call("CreateLoadBalancer", nlbName))
        arn == c.nextId
        lb == [arn |-> arn, name |-> nlbName, subnet |-> subnet, alloc |-> eipAllocID]
    IN
    IF Fault(fault, c1) THEN Ret(c, 0, "Fault", c2)
    ELSE Ret([c EXCEPT !.nextId = @ + 1,
                       !.lbs = @ \cup {lb},
                       !.eips = {IF eipAllocID # 0 /\ a.id = eipAllocID
                                 THEN [a EXCEPT !.lb = arn] ELSE a : a \in @}],
             arn, "", c2)

EnsureNLB(c, nlbName, subnet, eipAllocID, fault) ==
    LET c1 == <<Call("DescribeLoadBalancers", nlbName)>>
        notFound == LBsNamed(c, nlbName) = {}
    IN
    IF Fault(fault, <<>>) THEN Ret(c, 0, "Fault", c1)
    ELSE IF ~notFound
    THEN Ret(c, (CHOOSE lb \in LBsNamed(c, nlbName) : TRUE).arn, "", c1)
    ELSE
    LET c2 == Append(c1, Call("CreateLoadBalancer", nlbName))
        arn == c.nextId
        lb == [arn |-> arn, name |-> nlbName, subnet |-> subnet, alloc |-> eipAllocID]
    IN
    IF Fault(fault, c1) THEN Ret(c, 0, "Fault", c2)
    ELSE Ret([c EXCEPT !.nextId = @ + 1,
                       !.lbs = @ \cup {lb},
                       !.eips = {IF eipAllocID # 0 /\ a.id = eipAllocID
                                 THEN [a EXCEPT !.lb = arn] ELSE a : a \in @}],
             arn, "", c2)

\* RemoveNLB without the LoadBalancerNotFound case: the lookup's error is
\* returned whatever it is.
RemoveNLB_NotFoundIsError(c, nlbName, fault) ==
    LET c1 == <<Call("DescribeLoadBalancers", nlbName)>> IN
    IF Fault(fault, <<>>) THEN Ret(c, 0, "Fault", c1)
    ELSE IF LBsNamed(c, nlbName) = {} THEN Ret(c, 0, "LoadBalancerNotFound", c1)
    ELSE
    LET arn == (CHOOSE lb \in LBsNamed(c, nlbName) : TRUE).arn
        c2 == Append(c1, Call("DeleteLoadBalancer", arn))
    IN
    IF Fault(fault, c1) THEN Ret(c, 0, "Fault", c2)
    ELSE Ret([c EXCEPT !.lbs = {lb \in @ : lb.arn # arn},
                       !.listeners = {l \in @ : l.lb # arn}],
             0, "", c2)

\* Deleting a load balancer deletes its listeners.
RemoveNLB(c, nlbName, fault) ==
    LET c1 == <<Call("DescribeLoadBalancers", nlbName)>>
        notFound == LBsNamed(c, nlbName) = {}
    IN
    IF Fault(fault, <<>>) THEN Ret(c, 0, "Fault", c1)
    ELSE IF notFound THEN Ret(c, 0, "", c1)
    ELSE
    LET arn == (CHOOSE lb \in LBsNamed(c, nlbName) : TRUE).arn
        c2 == Append(c1, Call("DeleteLoadBalancer", arn))
    IN
    IF Fault(fault, c1) THEN Ret(c, 0, "Fault", c2)
    ELSE Ret([c EXCEPT !.lbs = {lb \in @ : lb.arn # arn},
                       !.listeners = {l \in @ : l.lb # arn}],
             0, "", c2)

(***************************************************************************)
(* Target group reconcilers.  DescribeTargetGroups by name answers         *)
(* TargetGroupNotFound when no group has the name; DeleteTargetGroup       *)
(* answers ResourceInUse while a listener forwards to the group, and       *)
(* drops the group's registered targets otherwise.                         *)
(***************************************************************************)
TGsNamed(c, name) == {tg \in c.tgs : tg.name = name}

TGInUse(c, arn) == \E l \in c.listeners : l.tg = arn

DeleteTG(c, arn) ==
    [c EXCEPT !.tgs = {tg \in @ : tg.arn # arn},
              !.targets = {t \in @ : t.tg # arn}]

CreateTG(c, name, port, proto, hcPort) ==
    [c EXCEPT !.nextId = @ + 1,
              !.tgs = @ \cup {[arn |-> c.nextId, name |-> name, port |-> port,
                               proto |-> proto, hcPort |-> hcPort]}]

\* EnsureTargetGroup without the port comparison: a group of the name is
\* returned as it is.
EnsureTargetGroup_KeepsAnyPort(c, vpc, tgName, port, fault) ==
    LET c1 == <<Call("DescribeTargetGroups", tgName)>>
        c3 == Append(c1, Call("CreateTargetGroup", tgName))
    IN
    IF Fault(fault, <<>>) THEN Ret(c, 0, "Fault", c1)
    ELSE IF TGsNamed(c, tgName) # {}
    THEN Ret(c, (CHOOSE g \in TGsNamed(c, tgName) : TRUE).arn, "", c1)
    ELSE IF Fault(fault, c1) THEN Ret(c, 0, "Fault", c3)
    ELSE Ret(CreateTG(c, tgName, port, "TCP", 0), c.nextId, "", c3)

EnsureTargetGroup(c, vpc, tgName, port, fault) ==
    LET c1 == <<Call("DescribeTargetGroups", tgName)>>
        notFound == TGsNamed(c, tgName) = {}
        tg == CHOOSE g \in TGsNamed(c, tgName) : TRUE
        create(cc, calls) ==
            LET c3 == Append(calls, Call("CreateTargetGroup", tgName)) IN
            IF Fault(fault, calls) THEN Ret(cc, 0, "Fault", c3)
            ELSE Ret(CreateTG(cc, tgName, port, "TCP", 0), cc.nextId, "", c3)
    IN
    IF Fault(fault, <<>>) THEN Ret(c, 0, "Fault", c1)
    ELSE IF ~notFound
    THEN IF tg.port = port THEN Ret(c, tg.arn, "", c1)
         ELSE LET c2 == Append(c1, Call("DeleteTargetGroup", tg.arn)) IN
              IF Fault(fault, c1) THEN Ret(c, 0, "Fault", c2)
              ELSE IF TGInUse(c, tg.arn) THEN Ret(c, 0, "ResourceInUse", c2)
              ELSE create(DeleteTG(c, tg.arn), c2)
    ELSE create(c, c1)

EnsureUDPTargetGroup(c, vpc, tgName, port, healthCheckPort, fault) ==
    LET c1 == <<Call("DescribeTargetGroups", tgName)>>
        notFound == TGsNamed(c, tgName) = {}
        tg == CHOOSE g \in TGsNamed(c, tgName) : TRUE
        create(cc, calls) ==
            LET c3 == Append(calls, Call("CreateTargetGroup", tgName)) IN
            IF Fault(fault, calls) THEN Ret(cc, 0, "Fault", c3)
            ELSE Ret(CreateTG(cc, tgName, port, "UDP", healthCheckPort), cc.nextId, "", c3)
    IN
    IF Fault(fault, <<>>) THEN Ret(c, 0, "Fault", c1)
    ELSE IF ~notFound
    THEN IF tg.port = port THEN Ret(c, tg.arn, "", c1)
         ELSE LET c2 == Append(c1, Call("DeleteTargetGroup", tg.arn)) IN
              IF Fault(fault, c1) THEN Ret(c, 0, "Fault", c2)
              ELSE IF TGInUse(c, tg.arn) THEN Ret(c, 0, "ResourceInUse", c2)
              ELSE create(DeleteTG(c, tg.arn), c2)
    ELSE create(c, c1)

\* RemoveTargetGroup had it passed the not-found error on to its caller
RemoveTargetGroup_NotFoundIsError(c, tgName, fault) ==
    LET c1 == <<Call("DescribeTargetGroups", tgName)>>
        notFound == TGsNamed(c, tgName) = {}
    IN
    IF Fault(fault, <<>>) THEN Ret(c, 0, "Fault", c1)
    ELSE IF notFound THEN Ret(c, 0, "TargetGroupNotFound", c1)
    ELSE
    LET tgARN == (CHOOSE g \in TGsNamed(c, tgName) : TRUE).arn
        c2 == Append(c1, Call("DeleteTargetGroup", tgARN))
    IN
    IF Fault(fault, c1) THEN Ret(c, 0, "Fault", c2)
    ELSE IF TGInUse(c, tgARN) THEN Ret(c, 0, "ResourceInUse", c2)
    ELSE Ret(DeleteTG(c, tgARN), 0, "", c2)

RemoveTargetGroup(c, tgName, fault) ==
    LET c1 == <<Call("DescribeTargetGroups", tgName)>>
        notFound == TGsNamed(c, tgName) = {}
    IN
    IF Fault(fault, <<>>) THEN Ret(c, 0, "Fault", c1)
    ELSE IF notFound THEN Ret(c, 0, "", c1)
    ELSE
    LET tgARN == (CHOOSE g \in TGsNamed(c, tgName) : TRUE).arn
        c2 == Append(c1, Call("DeleteTargetGroup", tgARN))
    IN
    IF Fault(fault, c1) THEN Ret(c, 0, "Fault", c2)
    ELSE IF TGInUse(c, tgARN) THEN Ret(c, 0, "ResourceInUse", c2)
    ELSE Ret(DeleteTG(c, tgARN), 0, "", c2)

(***************************************************************************)
(* Target registration.  order is the sequence of target ids in which      *)
(* DescribeTargetHealth lists the group's registered targets.              *)
(***************************************************************************)
TargetsOf(c, tgARN) == {t.id : t \in {x \in c.targets : x.tg = tgARN}}

\* the sequences that list every element of S once
Orders(S) == {o \in [1..Cardinality(S) -> S] : \A x \in S : \E i \in DOMAIN o : o[i] = x}

RECURSIVE EnsureTargetLoop(_, _, _, _, _, _, _)
EnsureTargetLoop(c, calls, targetGroupARN, targetID, order, i, fault) ==
    IF i > Len(order)
    THEN LET c3 == Append(calls, Call("RegisterTargets", targetID)) IN
         IF Fault(fault, calls) THEN Ret(c, 0, "Fault", c3)
         ELSE Ret([c EXCEPT !.targets = @ \cup {[tg |-> targetGroupARN, id |-> targetID]}],
                  0, "", c3)
    ELSE IF order[i] = targetID THEN Ret(c, 0, "", calls)
    ELSE LET c2 == Append(calls, Call("DeregisterTargets", order[i])) IN
         IF Fault(fault, calls) THEN Ret(c, 0, "Fault", c2)
         ELSE EnsureTargetLoop(
                  [c EXCEPT !.targets = @ \ {[tg |-> targetGroupARN, id |-> order[i]]}],
                  c2, targetGroupARN, targetID, order, i + 1, fault)

\* EnsureTarget without the deregistration loop.
EnsureTarget_RegisterOnly(c, targetGroupARN, targetID, order, fault) ==
    LET c1 == <<Call("DescribeTargetHealth", targetGroupARN)>>
        c3 == Append(c1, Call("RegisterTargets", targetID))
    IN
    IF Fault(fault, <<>>) THEN Ret(c, 0, "Fault", c1)
    ELSE IF targetID \in TargetsOf(c, targetGroupARN) THEN Ret(c, 0, "", c1)
    ELSE IF Fault(fault, c1) THEN Ret(c, 0, "Fault", c3)
    ELSE Ret([c EXCEPT !.targets = @ \cup {[tg |-> targetGroupARN, id |-> targetID]}],
             0, "", c3)

EnsureTarget(c, targetGroupARN, targetID, order, fault) ==
    LET c1 == <<Call("DescribeTargetHealth", targetGroupARN)>> IN
    IF Fault(fault, <<>>) THEN Ret(c, 0, "Fault", c1)
    ELSE EnsureTargetLoop(c, c1, targetGroupARN, targetID, order, 1, fault)

(***************************************************************************)
(* Listener reconciler.  A load balancer holds at most one listener per    *)
(* port (CreateListener answers DuplicateListener otherwise), so the loop  *)
(* over the listeners meets at most one whose port is the requested one.   *)
(***************************************************************************)
ListenersOn(c, lbARN, port) == {l \in c.listeners : l.lb = lbARN /\ l.port = port}

\* EnsureListener that looks at the port only: a listener of the port is
\* kept whatever it forwards to.
EnsureListener_PortOnly(c, lbARN, tgARN, port, udp, fault) ==
    LET c1 == <<Call("DescribeListeners", lbARN)>>
        c3 == Append(c1, Call("CreateListener", port))
    IN
    IF Fault(fault, <<>>) THEN Ret(c, 0, "Fault", c1)
    ELSE IF ListenersOn(c, lbARN, port) # {} THEN Ret(c, 0, "", c1)
    ELSE IF Fault(fault, c1) THEN Ret(c, 0, "Fault", c3)
    ELSE Ret([c EXCEPT !.nextId = @ + 1,
                       !.listeners = @ \cup {[arn |-> c.nextId, lb |-> lbARN,
                                              port |-> port, tg |-> tgARN,
                                              proto |-> IF udp THEN "UDP" ELSE "TCP"]}],
             0, "", c3)

EnsureListener(c, lbARN, tgARN, port, udp, fault) ==
    LET c1 == <<Call("DescribeListeners", lbARN)>>
        onPort == ListenersOn(c, lbARN, port)
        protocol == IF udp THEN "UDP" ELSE "TCP"
        create(cc, calls) ==
            LET c3 == Append(calls, Call("CreateListener", port)) IN
            IF Fault(fault, calls) THEN Ret(cc, 0, "Fault", c3)
            ELSE IF ListenersOn(cc, lbARN, port) # {}
            THEN Ret(cc, 0, "DuplicateListener", c3)
            ELSE Ret([cc EXCEPT !.nextId = @ + 1,
                                !.listeners = @ \cup {[arn |-> cc.nextId, lb |-> lbARN,
                                                       port |-> port, tg |-> tgARN,
                                                       proto |-> protocol]}],
                     0, "", c3)
    IN
    IF Fault(fault, <<>>) THEN Ret(c, 0, "Fault", c1)
    ELSE IF onPort = {} THEN create(c, c1)
    ELSE
    LET listener == CHOOSE l \in onPort : TRUE IN
    IF listener.tg = tgARN THEN Ret(c, 0, "", c1)
    ELSE LET c2 == Append(c1, Call("DeleteListener", listener.arn)) IN
         IF Fault(fault, c1) THEN Ret(c, 0, "Fault", c2)
         ELSE create([c EXCEPT !.listeners = @ \ {listener}], c2)

(***************************************************************************)
(* DNS record reconciler.  The zone stores and lists a record name as a    *)
(* fully qualified name: with a trailing dot, and with "*" written as the  *)
(* escape \052.                                                            *)
(***************************************************************************)
RECURSIVE R53Escape(_)
R53Escape(n) ==
    IF n = <<>> THEN <<>>
    ELSE (IF Head(n) = 42 THEN <<92, 48, 53, 50>> ELSE <<Head(n)>>) \o R53Escape(Tail(n))

R53Name(n) ==
    LET e == R53Escape(n)
    IN IF e # <<>> /\ e[Len(e)] = 46 THEN e ELSE e \o DOT

EnsureCNameRecord(c, zoneID, dnsName, targetName, fault) ==
    LET c1 == <<Call("ChangeResourceRecordSets.UPSERT", <<dnsName, targetName>>)>>
        stored == R53Name(dnsName)
    IN
    IF Fault(fault, <<>>) THEN Ret(c, 0, "Fault", c1)
    ELSE Ret([c EXCEPT !.dns = {r \in @ : ~(r.zone = zoneID /\ r.name = stored)}
                               \cup {[zone |-> zoneID, name |-> stored,
                                      value |-> targetName]}],
             0, "", c1)

\* RemoveCNameRecord had it issued its DELETE change whatever the listing held
RemoveCNameRecord_AlwaysDelete(c, zoneID, dnsName, fault) ==
    LET c1 == <<Call("ListResourceRecordSets", zoneID)>>
        found == {r \in c.dns : r.zone = zoneID /\ r.name = dnsName /\ r.value # NoStr}
        value == IF found = {} THEN NoStr ELSE (CHOOSE r \in found : TRUE).value
        c2 == Append(c1, Call("ChangeResourceRecordSets.DELETE", <<dnsName, value>>))
    IN
    IF Fault(fault, <<>>) THEN Ret(c, 0, "Fault", c1)
    ELSE IF Fault(fault, c1) THEN Ret(c, 0, "Fault", c2)
    ELSE Ret([c EXCEPT !.dns = {r \in @ : ~(r.zone = zoneID /\ r.name = R53Name(dnsName)
                                             /\ r.value = value)}],
             0, "", c2)

RemoveCNameRecord(c, zoneID, dnsName, fault) ==
    LET c1 == <<Call("ListResourceRecordSets", zoneID)>>
        found == {r \in c.dns : r.zone = zoneID /\ r.name = dnsName /\ r.value # NoStr}
        value == IF found = {} THEN NoStr ELSE (CHOOSE r \in found : TRUE).value
        c2 == Append(c1, Call("ChangeResourceRecordSets.DELETE", <<dnsName, value>>))
    IN
    IF Fault(fault, <<>>) THEN Ret(c, 0, "Fault", c1)
    ELSE IF value = NoStr THEN Ret(c, 0, "", c1)
    ELSE IF Fault(fault, c1) THEN Ret(c, 0, "Fault", c2)
    ELSE Ret([c EXCEPT !.dns = {r \in @ : ~(r.zone = zoneID /\ r.name = R53Name(dnsName)
                                             /\ r.value = value)}],
             0, "", c2)

(***************************************************************************)
(* Worker security group rule reconciler.                                  *)
(***************************************************************************)
NodePortFrom == 30000
NodePortTo == 32767

TCPRule == [proto |-> "tcp", from |-> NodePortFrom, to |-> NodePortTo, cidr |-> "10.0.0.0/16"]
UDPRule == [proto |-> "udp", from |-> NodePortFrom, to |-> NodePortTo, cidr |-> "0.0.0.0/0"]

SGsNamed(c, name) == {g \in c.sgs : g.name = name}

Authorize(c, sgName, rule) ==
    [c EXCEPT !.sgs = {IF g.name = sgName THEN [g EXCEPT !.perms = @ \cup {rule}] ELSE g
                         : g \in @}]

\* EnsureWorkersAllowNodePortAccess with one flag for both rules: it adds the
\* two rules whenever one of them is missing.
EnsureWorkersAllowNodePortAccess_AddsBoth(c, infraName, fault) ==
    LET sgName == infraName \o S_workerSG
        c1 == <<Call("DescribeSecurityGroups", sgName)>>
    IN
    IF Fault(fault, <<>>) THEN Ret(c, 0, "Fault", c1)
    ELSE IF SGsNamed(c, sgName) = {} THEN Ret(c, 0, "NoWorkersSecurityGroup", c1)
    ELSE
    LET sg == CHOOSE g \in SGsNamed(c, sgName) : TRUE
        foundTCPRule == {TCPRule, UDPRule} \subseteq sg.perms
        foundUDPRule == foundTCPRule
        c2 == IF foundTCPRule THEN c1
              ELSE Append(c1, Call("AuthorizeSecurityGroupIngress", "tcp"))
        cT == IF foundTCPRule THEN c ELSE Authorize(c, sgName, TCPRule)
        c3 == IF foundUDPRule THEN c2
              ELSE Append(c2, Call("AuthorizeSecurityGroupIngress", "udp"))
    IN
    IF ~foundTCPRule /\ Fault(fault, c1) THEN Ret(c, 0, "Fault", c2)
    ELSE IF ~foundUDPRule /\ Fault(fault, c2) THEN Ret(cT, 0, "Fault", c3)
    ELSE Ret(IF foundUDPRule THEN cT ELSE Authorize(cT, sgName, UDPRule), 0, "", c3)

EnsureWorkersAllowNodePortAccess(c, infraName, fault) ==
    LET sgName == infraName \o S_workerSG
        c1 == <<Call("DescribeSecurityGroups", sgName)>>
    IN
    IF Fault(fault, <<>>) THEN Ret(c, 0, "Fault", c1)
    ELSE IF SGsNamed(c, sgName) = {} THEN Ret(c, 0, "NoWorkersSecurityGroup", c1)
    ELSE
    LET sg == CHOOSE g \in SGsNamed(c, sgName) : TRUE
        foundTCPRule == \E p \in sg.perms :
                            /\ p.from = NodePortFrom /\ p.to = NodePortTo
                            /\ p.proto = "tcp" /\ p.cidr = "10.0.0.0/16"
        foundUDPRule == \E p \in sg.perms :
                            /\ p.from = NodePortFrom /\ p.to = NodePortTo
                            /\ p.proto = "udp" /\ p.cidr = "0.0.0.0/0"
        c2 == IF foundTCPRule THEN c1
              ELSE Append(c1, Call("AuthorizeSecurityGroupIngress", "tcp"))
        cT == IF foundTCPRule THEN c ELSE Authorize(c, sgName, TCPRule)
        c3 == IF foundUDPRule THEN c2
              ELSE Append(c2, Call("AuthorizeSecurityGroupIngress", "udp"))
    IN
    IF ~foundTCPRule /\ Fault(fault, c1) THEN Ret(c, 0, "Fault", c2)
    ELSE IF ~foundUDPRule /\ Fault(fault, c2) THEN Ret(cT, 0, "Fault", c3)
    ELSE Ret(IF foundUDPRule THEN cT ELSE Authorize(cT, sgName, UDPRule), 0, "", c3)

(***************************************************************************)
(* Ignition bucket reconciler.  GetBucketLocation answers NoSuchBucket for *)
(* an absent bucket; CreateBucket answers BucketAlreadyOwnedByYou for a    *)
(* bucket the account already owns.                                        *)
(***************************************************************************)
BucketsNamed(c, name) == {b \in c.buckets : b.name = name}

EnsureIgnitionBucket(c, name, fileName, fault) ==
    LET c1 == <<Call("GetBucketLocation", name)>>
        exists == BucketsNamed(c, name) # {}
        probeErr == Fault(fault, <<>>) \/ ~exists
        c2 == IF probeErr THEN Append(c1, Call("CreateBucket", name)) ELSE c1
        cB == IF probeErr /\ ~exists
              THEN [c EXCEPT !.buckets = @ \cup {[name |-> name, objs |-> {}, tagged |-> FALSE]}]
              ELSE c
        c3 == Append(c2, Call("PutBucketTagging", name))
        cT == [cB EXCEPT !.buckets = {IF b.name = name THEN [b EXCEPT !.tagged = TRUE] ELSE b
                                        : b \in @}]
        c4 == Append(c3, Call("Upload", S_workerIgn))
    IN
    IF probeErr /\ Fault(fault, c1) THEN Ret(c, 0, "Fault", c2)
    ELSE IF probeErr /\ exists THEN Ret(c, 0, "BucketAlreadyOwnedByYou", c2)
    ELSE IF Fault(fault, c2) THEN Ret(cB, 0, "Fault", c3)
    ELSE IF Fault(fault, c3) THEN Ret(cT, 0, "Fault", c4)
    ELSE Ret([cT EXCEPT !.buckets = {IF b.name = name
                                      THEN [b EXCEPT !.objs = @ \cup {S_workerIgn}] ELSE b
                                        : b \in @}],
             0, "", c4)

RECURSIVE DeleteObjects(_, _, _, _, _)
DeleteObjects(c, name, keys, calls, fault) ==
    IF keys = {} THEN Ret(c, 0, "", calls)
    ELSE LET key == CHOOSE k \in keys : TRUE
             c2 == Append(calls, Call("DeleteObject", key))
         IN IF Fault(fault, calls) THEN Ret(c, 0, "Fault", c2)
            ELSE DeleteObjects(
                     [c EXCEPT !.buckets = {IF b.name = name
                                            THEN [b EXCEPT !.objs = @ \ {key}] ELSE b
                                              : b \in @}],
                     name, keys \ {key}, c2, fault)

\* The keys of one page of ListObjectsV2Pages: at most MaxKeys of the keys
\* not listed yet.
PageOf(keys) ==
    CHOOSE P \in SUBSET keys :
        Cardinality(P) = (IF Cardinality(keys) < MaxKeys THEN Cardinality(keys) ELSE MaxKeys)

\* ListObjectsV2Pages with the callback of RemoveIgnitionBucket: one request
\* per page, then a DeleteObject per key of the page; a failed request ends
\* the listing with its error, a failed DeleteObject ends it with deleteErr.
RECURSIVE DeletePages(_, _, _, _, _)
DeletePages(c, name, keys, calls, fault) ==
    LET c2 == Append(calls, Call("ListObjectsV2", name))
        page == PageOf(keys)
    IN
    IF Fault(fault, calls) THEN Ret(c, 0, "Fault", c2)
    ELSE LET d == DeleteObjects(c, name, page, c2, fault)
         IN IF d.err # "" \/ keys \ page = {} THEN d
            ELSE DeletePages(d.cloud, name, keys \ page, d.calls, fault)

\* RemoveIgnitionBucket had it deleted the bucket whatever the listing and
\* the object deletions returned.
RemoveIgnitionBucket_IgnoresDeleteErr(c, name, fault) ==
    LET c1 == <<Call("GetBucketLocation", name)>> IN
    IF Fault(fault, <<>>) THEN Ret(c, 0, "Fault", c1)
    ELSE IF BucketsNamed(c, name) = {} THEN Ret(c, 0, "", c1)
    ELSE
    LET d == DeletePages(c, name, (CHOOSE b \in BucketsNamed(c, name) : TRUE).objs,
                         c1, fault)
        c3 == Append(d.calls, Call("DeleteBucket", name))
    IN
    IF Fault(fault, d.calls) THEN Ret(d.cloud, 0, "Fault", c3)
    ELSE Ret([d.cloud EXCEPT !.buckets = {b \in @ : b.name # name}], 0, d.err, c3)

RemoveIgnitionBucket(c, name, fault) ==
    LET c1 == <<Call("GetBucketLocation", name)>> IN
    IF Fault(fault, <<>>) THEN Ret(c, 0, "Fault", c1)
    ELSE IF BucketsNamed(c, name) = {} THEN Ret(c, 0, "", c1)
    ELSE
    LET d == DeletePages(c, name, (CHOOSE b \in BucketsNamed(c, name) : TRUE).objs,
                         c1, fault)
        c3 == Append(d.calls, Call("DeleteBucket", name))
    IN
    IF d.err # "" THEN d
    ELSE IF Fault(fault, d.calls) THEN Ret(d.cloud, 0, "Fault", c3)
    ELSE Ret([d.cloud EXCEPT !.buckets = {b \in @ : b.name # name}], 0, "", c3)

(***************************************************************************)
(* Worker machine set removal.  The Delete request is always sent; the API *)
(* server answers NotFound for an absent object.                           *)
(***************************************************************************)
removeWorkerMachineset(c, infraName, namespace, fault) ==
    LET name == generateMachineSetName(infraName, namespace, S_worker)
        c1 == <<Call("machinesets.Delete", name)>>
    IN
    IF Fault(fault, <<>>) THEN Ret(c, 0, "Fault", c1)
    ELSE IF name \notin c.machinesets THEN Ret(c, 0, "", c1)
    ELSE Ret([c EXCEPT !.machinesets = @ \ {name}], 0, "", c1)

(***************************************************************************)
(* The reconcilers called one after another, in any order and with any     *)
(* inputs, on the resources of cluster "demo" of the management cluster    *)
(* with infrastructure name "abcde".  A behaviour works on one group of    *)
(* resources that depend on each other (scope): "addr", the Elastic IP and *)
(* the load balancer that holds it; "tg", the target groups and their      *)
(* targets; "lst", the load balancer, the target groups and the listeners  *)
(* between them; "aux", the resources nothing else depends on (DNS record, *)
(* security group rules, ignition bucket, worker machine set).             *)
(***************************************************************************)
DemoInfra == <<97, 98, 99, 100, 101>>     \* "abcde"
DemoName == <<100, 101, 109, 111>>        \* "demo"
DemoParent == <<101, 120, 97, 109, 112, 108, 101, 46, 99, 111, 109>>  \* "example.com"
DemoZone == "Z1"

DemoApiName == generateLBResourceName(DemoInfra, DemoName, S_api)
DemoVpnName == generateLBResourceName(DemoInfra, DemoName, S_vpn)
DemoBucket == generateBucketName(DemoInfra, DemoName, S_ign)
DemoApiDNS == S_apiDot \o DemoName \o DOT \o DemoParent

TGPorts == {31080, 31443}
ListenerPorts == {6443, 8443}
TargetIDs == {"10.0.1.10", "10.0.1.11"}
LBDNSNames == {<<108, 98, 49>>, <<108, 98, 50>>}     \* "lb1", "lb2"

NoCall == [op |-> "none", args |-> <<>>, ret |-> 0, err |-> "", calls |-> <<>>,
           repeat |-> FALSE, prevRet |-> 0]

\* The worker security group exists in every management cluster.
InitCloud ==
    [EmptyCloud EXCEPT !.sgs = {[name |-> DemoInfra \o S_workerSG,
                                 perms |-> {[proto |-> "tcp", from |-> 22, to |-> 22,
                                             cidr |-> "10.0.0.0/16"]}]}]

\* an installer that ensures the API listener before the API target group
InstallSteps_ListenerFirst ==
    <<"facts", "namespace", "scc", "pullSecret", "apiService", "vpnService",
      "openshiftService", "oauthService", "lbInfo", "machineInfo",
      "eip", "apiLB", "apiListener", "apiTG", "oauthTG", "apiTarget", "oauthTarget",
      "oauthListener", "apiDNS", "routerLB", "httpTG", "httpListener",
      "httpsTG", "httpsListener", "routerDNS", "vpnLB", "vpnTG", "vpnTarget",
      "vpnListener", "vpnDNS", "workersSG", "pki", "bucket", "render", "branding",
      "manifests">>

\* The steps of InstallCluster in its order: the facts read from the
\* management cluster, the namespace and the objects created in it, the
\* placement of the load balancers, the Ensure calls, the files generated
\* locally (pki, render), the ignition bucket and the manifests.
InstallSteps ==
    <<"facts", "namespace", "scc", "pullSecret", "apiService", "vpnService",
      "openshiftService", "oauthService", "lbInfo", "machineInfo",
      "eip", "apiLB", "apiTG", "oauthTG", "apiTarget", "oauthTarget",
      "apiListener", "oauthListener", "apiDNS", "routerLB", "httpTG", "httpListener",
      "httpsTG", "httpsListener", "routerDNS", "vpnLB", "vpnTG", "vpnTarget",
      "vpnListener", "vpnDNS", "workersSG", "pki", "bucket", "render", "branding",
      "manifests">>

Installed == Len(InstallSteps) + 1

\* the steps that call a reconciler of the AWS helper
EnsureSteps ==
    {"eip", "apiLB", "apiTG", "oauthTG", "apiTarget", "oauthTarget", "apiListener",
     "oauthListener", "apiDNS", "routerLB", "httpTG", "httpListener", "httpsTG",
     "httpsListener", "routerDNS", "vpnLB", "vpnTG", "vpnTarget", "vpnListener", "vpnDNS",
     "workersSG"}

\* pc: 0 before the run, k while step k of InstallSteps is next, Installed
\* once it has returned; ids: what each step returned; at: the step that
\* returned the error; opFailed: an operation of the run returned an error;
\* start: the cloud when the run began; runs: runs begun so far; rerun: the
\* run before this one failed at an Ensure step; apis: the API calls issued;
\* sub: the call that is next inside a step that is taken call by call
\* ("": the step has not begun); obj: the SCC object the run has read and
\* changed; found: the node port rules the run found in the security group
IdleIns == [pc |-> 0, err |-> "",
            ids |-> [l \in {InstallSteps[i] : i \in DOMAIN InstallSteps} |-> 0],
            at |-> "", opFailed |-> FALSE, start |-> EmptyCloud, runs |-> 0,
            rerun |-> FALSE, apis |-> {}, sub |-> "",
            obj |-> [users |-> {}, version |-> 0], found |-> {}]

\* pc: 0 before the first run, k while step k of UninstallSteps is next;
\* absent: a step of this run found nothing to remove; removed: a step of this
\* run removed something; rerun: this run follows one that returned success.
IdleUn == [pc |-> 0, err |-> "", log |-> <<>>, absent |-> FALSE, removed |-> FALSE,
           rerun |-> FALSE]
\* no wait started: no listing observed (obs), no time elapsed.  wait: the
\* wait under way or returned; log: the waits called so far; poll: the answer
\* to the last /healthz request; pod: the pod of the last event; ops: the
\* cluster operators listed last; pc is "idle", "waiting", "done" (the wait
\* returned err) or "returned" (InstallCluster returned err)
IdleWt == [pc |-> "idle", expectedCount |-> 0, nodes |-> <<>>, elapsed |-> 0, err |-> "",
           obs |-> "none", sawNotReady |-> FALSE, wait |-> "", waitForReady |-> FALSE,
           log |-> <<>>, poll |-> "none", pod |-> [name |-> "", phase |-> ""], podNs |-> "",
           ops |-> <<>>]
\* no apply started.  present: the excluded manifests that are in the
\* directory; moved: how many of the exclusion list were moved out;
\* attempts: the result of each apply attempt so far
IdleAm == [pc |-> "idle", present |-> {}, moved |-> 0, attempts |-> <<>>, err |-> "",
           given |-> {}, applied |-> {}]
IdleGn == [base |-> <<>>, suffix |-> <<>>, maxLength |-> 0, out |-> <<>>, called |-> FALSE]
\* the names one run of the installer or of the uninstaller uses
NoNames == [eip |-> NoStr, apiLB |-> NoStr, apiTG |-> NoStr, oauthTG |-> NoStr,
            appsLB |-> NoStr, httpTG |-> NoStr, httpsTG |-> NoStr,
            vpnLB |-> NoStr, vpnTG |-> NoStr, bucket |-> NoStr, machineset |-> NoStr]
IdleNm == [infra |-> NoStr, name |-> NoStr, install |-> NoNames, uninstall |-> NoNames]

InitRec ==
    /\ cloud = InitCloud
    /\ last = NoCall
    /\ scope \in {"addr", "tg", "lst", "aux"}
    /\ ins = IdleIns
    /\ un = IdleUn
    /\ gn = IdleGn
    /\ nm = IdleNm
    /\ wt = IdleWt
    /\ am = IdleAm
    /\ ins2 = IdleIns

\* The identities of one kind of resource that are in use.  Identities of
\* different kinds are never compared (an allocation id, a load balancer
\* ARN, a target group ARN and a listener ARN differ in form).
IdsInUse(c, kind) ==
    CASE kind = "eip" -> {a.id : a \in c.eips}
      [] kind = "lb" -> {lb.arn : lb \in c.lbs} \cup {a.lb : a \in c.eips}
      [] kind = "tg" -> {tg.arn : tg \in c.tgs}
      [] kind = "listener" -> {l.arn : l \in c.listeners}
      [] OTHER -> {}

\* The provider hands out an identity that names no existing resource of the
\* kind and differs from the identities in avoid.
WithFreshId(c, kind, avoid) ==
    LET used == (IdsInUse(c, kind) \cup avoid) \ {0}
    IN [c EXCEPT !.nextId = MinOf({i \in 1..(Cardinality(used) + 1) : i \notin used})]

\* The kind of identity a reconciler returns.
KindOf(op) ==
    CASE op = "EnsureEIP" -> "eip"
      [] op = "EnsureNLB" -> "lb"
      [] op \in {"EnsureTargetGroup", "EnsureUDPTargetGroup"} -> "tg"
      [] OTHER -> "none"

\* The cloud a reconciler call of this behaviour works on: the identity the
\* provider hands out next also differs from the one the last call returned.
Provider(kind) ==
    WithFreshId(cloud, kind, IF KindOf(last.op) = kind THEN {last.ret} ELSE {})

\* One reconciler call: its effect and result are recorded; repeat says that
\* the call before it was the same function with the same inputs and
\* returned success.
Do(op, args, r) ==
    LET repeat == last.op = op /\ last.err = "" /\ last.args = args IN
    /\ Cardinality(r.cloud.eips) <= MaxAddresses
    /\ cloud' = [r.cloud EXCEPT !.nextId = 0]
    /\ last' = [op |-> op, args |-> args, ret |-> r.ret, err |-> r.err, calls |-> r.calls,
                repeat |-> repeat, prevRet |-> IF repeat THEN last.ret ELSE 0]
    /\ UNCHANGED <<scope, ins, un, gn, nm, wt, am, ins2>>

DoEnsureEIP ==
    /\ scope = "addr"
    /\ \E fault \in 0..3 :
           Do("EnsureEIP", <<DemoApiName>>, EnsureEIP(Provider("eip"), DemoApiName, fault))

DoRemoveEIP ==
    /\ scope = "addr"
    /\ \E freeAt \in {0, 1, 2, MaxPollCount}, fault \in 0..2 :
           Do("RemoveEIP", <<DemoApiName>>, RemoveEIP(Provider("eip"), DemoApiName, freeAt, fault))

DoEnsureNLB ==
    /\ scope \in {"addr", "lst"}
    /\ \E alloc \in {0} \cup {a.id : a \in cloud.eips}, fault \in 0..2,
          subnet \in (IF scope = "addr" THEN {"subnet-1", "subnet-2"} ELSE {"subnet-1"}) :
           Do("EnsureNLB", <<DemoApiName, subnet, alloc>>,
              EnsureNLB(Provider("lb"), DemoApiName, subnet, alloc, fault))

DoRemoveNLB ==
    /\ scope \in {"addr", "lst"}
    /\ \E fault \in 0..2 :
           Do("RemoveNLB", <<DemoApiName>>, RemoveNLB(Provider("lb"), DemoApiName, fault))

DoEnsureTargetGroup ==
    /\ scope \in {"tg", "lst"}
    /\ \E port \in TGPorts, fault \in 0..3 :
           Do("EnsureTargetGroup", <<"vpc-1", DemoApiName, port>>,
              EnsureTargetGroup(Provider("tg"), "vpc-1", DemoApiName, port, fault))

DoEnsureUDPTargetGroup ==
    /\ scope \in {"tg", "lst"}
    /\ \E port \in (IF scope = "tg" THEN TGPorts ELSE {31443}), fault \in 0..3 :
           Do("EnsureUDPTargetGroup", <<"vpc-1", DemoVpnName, port, 31080>>,
              EnsureUDPTargetGroup(Provider("tg"), "vpc-1", DemoVpnName, port, 31080, fault))

DoRemoveTargetGroup ==
    /\ scope \in {"tg", "lst"}
    /\ \E tgName \in {DemoApiName, DemoVpnName}, fault \in 0..2 :
           Do("RemoveTargetGroup", <<tgName>>, RemoveTargetGroup(Provider("tg"), tgName, fault))

DoEnsureTarget ==
    /\ scope = "tg"
    /\ \E tg \in cloud.tgs, targetID \in TargetIDs, fault \in 0..3 :
           \E order \in Orders(TargetsOf(cloud, tg.arn)) :
               Do("EnsureTarget", <<tg.arn, targetID>>,
                  EnsureTarget(Provider("tg"), tg.arn, targetID, order, fault))

DoEnsureListener ==
    /\ scope = "lst"
    /\ \E lb \in cloud.lbs, tg \in cloud.tgs, port \in ListenerPorts, fault \in 0..3 :
           Do("EnsureListener", <<lb.arn, tg.arn, port, tg.proto = "UDP">>,
              EnsureListener(Provider("listener"), lb.arn, tg.arn, port, tg.proto = "UDP", fault))

DoEnsureCNameRecord ==
    /\ scope = "aux"
    /\ \E target \in LBDNSNames, fault \in 0..1 :
           Do("EnsureCNameRecord", <<DemoZone, DemoApiDNS, target>>,
              EnsureCNameRecord(Provider("none"), DemoZone, DemoApiDNS, target, fault))

DoRemoveCNameRecord ==
    /\ scope = "aux"
    /\ \E dnsName \in {DemoApiDNS, DemoApiDNS \o DOT}, fault \in 0..2 :
           Do("RemoveCNameRecord", <<DemoZone, dnsName>>,
              RemoveCNameRecord(Provider("none"), DemoZone, dnsName, fault))

DoEnsureWorkersAllowNodePortAccess ==
    /\ scope = "aux"
    /\ \E fault \in 0..3 :
           Do("EnsureWorkersAllowNodePortAccess", <<>>,
              EnsureWorkersAllowNodePortAccess(Provider("none"), DemoInfra, fault))

DoEnsureIgnitionBucket ==
    /\ scope = "aux"
    /\ \E fault \in 0..4 :
           Do("EnsureIgnitionBucket", <<DemoBucket, "bootstrap.ign">>,
              EnsureIgnitionBucket(Provider("none"), DemoBucket, "bootstrap.ign", fault))

DoRemoveIgnitionBucket ==
    /\ scope = "aux"
    /\ \E fault \in 0..(MaxObjects + 4) :
           Do("RemoveIgnitionBucket", <<DemoBucket>>,
              RemoveIgnitionBucket(Provider("none"), DemoBucket, fault))

\* The manifests applied at the end of an install create the machine set.
ApplyWorkerMachineset(c, infraName, namespace) ==
    [c EXCEPT !.machinesets = @ \cup {generateMachineSetName(infraName, namespace, S_worker)}]

\* machine-user-data.json, applied with the other manifests: the Secret
\* <namespace>-user-data of the openshift-machine-api namespace
ApplyUserDataSecret(c, namespace) == [c EXCEPT !.userData = @ \cup {namespace}]

DoApplyWorkerMachineset ==
    /\ scope = "aux"
    /\ Do("ApplyWorkerMachineset", <<DemoInfra, DemoName>>,
          Ret(ApplyWorkerMachineset(cloud, DemoInfra, DemoName), 0, "", <<>>))

DoRemoveWorkerMachineset ==
    /\ scope = "aux"
    /\ \E fault \in 0..1 :
           Do("removeWorkerMachineset", <<DemoInfra, DemoName>>,
              removeWorkerMachineset(Provider("none"), DemoInfra, DemoName, fault))

NextRec ==
    \/ DoEnsureEIP \/ DoRemoveEIP \/ DoEnsureNLB \/ DoRemoveNLB
    \/ DoEnsureTargetGroup \/ DoEnsureUDPTargetGroup \/ DoRemoveTargetGroup
    \/ DoEnsureTarget \/ DoEnsureListener
    \/ DoEnsureCNameRecord \/ DoRemoveCNameRecord
    \/ DoEnsureWorkersAllowNodePortAccess
    \/ DoEnsureIgnitionBucket \/ DoRemoveIgnitionBucket
    \/ DoApplyWorkerMachineset \/ DoRemoveWorkerMachineset

SpecRec == InitRec /\ [][NextRec]_vars

\* Somebody else (an operator, another tool) registers a target in a target
\* group of the account.
EnvRegisterTarget ==
    /\ scope = "tg"
    /\ \E tg \in cloud.tgs, targetID \in TargetIDs :
           /\ cloud' = [cloud EXCEPT !.targets = @ \cup {[tg |-> tg.arn, id |-> targetID]}]
           /\ last' = [NoCall EXCEPT !.op = "env.RegisterTargets",
                                     !.args = <<tg.arn, targetID>>]
    /\ UNCHANGED <<scope, ins, un, gn, nm, wt, am, ins2>>

\* keys of the objects somebody else may put into the ignition bucket
OtherKeys == {<<96 + i>> : i \in 1..(MaxObjects - 1)}

\* Somebody else uploads an object to the ignition bucket.
EnvPutObject ==
    /\ scope = "aux"
    /\ \E b \in BucketsNamed(cloud, DemoBucket), key \in OtherKeys :
           /\ key \notin b.objs
           /\ Cardinality(b.objs) < MaxObjects
           /\ cloud' = [cloud EXCEPT !.buckets = (@ \ {b}) \cup {[b EXCEPT !.objs = @ \cup {key}]}]
           /\ last' = [NoCall EXCEPT !.op = "env.PutObject", !.args = <<DemoBucket, key>>]
    /\ UNCHANGED <<scope, ins, un, gn, nm, wt, am, ins2>>

SpecRecEnv == InitRec /\ [][NextRec \/ EnvRegisterTarget \/ EnvPutObject]_vars

(***************************************************************************)
(* InstallCluster and UninstallCluster on cluster "demo".                  *)
(***************************************************************************)
\* what the management cluster reports: the node ports of the services the
\* installer creates, the first machine and the placement of its load
\* balancers
DemoPorts == [api |-> 30443, oauth |-> 30444, vpn |-> 30445]
DemoMachine == [id |-> "i-0a1", ip |-> "10.0.1.10"]
DemoLBInfo == [vpc |-> "vpc-1", subnet |-> "subnet-1"]

\* DNS name of the load balancer with the given ARN
LBDNS(arn) == <<108, 98, 48 + arn>>

\* The names InstallCluster passes to the Ensure calls and writes into the
\* machine set manifest.
InstallNames(infraName, name) ==
    LET apiLBName == generateLBResourceName(infraName, name, S_api)
        oauthTGName == generateLBResourceName(infraName, name, S_oauth)
        routerLBName == generateLBResourceName(infraName, name, S_apps)
        routerHTTPTGName == generateLBResourceName(infraName, name, S_http)
        routerHTTPSTGName == generateLBResourceName(infraName, name, S_https)
        vpnLBName == generateLBResourceName(infraName, name, S_vpn)
        bucketName == generateBucketName(infraName, name, S_ign)
        workerName == generateMachineSetName(infraName, name, S_worker)
    IN [eip |-> apiLBName, apiLB |-> apiLBName, apiTG |-> apiLBName,
        oauthTG |-> oauthTGName, appsLB |-> routerLBName,
        httpTG |-> routerHTTPTGName, httpsTG |-> routerHTTPSTGName,
        vpnLB |-> vpnLBName, vpnTG |-> vpnLBName,
        bucket |-> bucketName, machineset |-> workerName]

\* An uninstaller that derives the machine set name with the load balancer
\* generator (32 bytes at most instead of 43).
UninstallNames_MachineSetAsLB(infraName, name) ==
    LET apiLBName == generateLBResourceName(infraName, name, S_api)
        vpnLBName == generateLBResourceName(infraName, name, S_vpn)
    IN [eip |-> apiLBName, apiLB |-> apiLBName, apiTG |-> apiLBName,
        oauthTG |-> generateLBResourceName(infraName, name, S_oauth),
        appsLB |-> generateLBResourceName(infraName, name, S_apps),
        httpTG |-> generateLBResourceName(infraName, name, S_http),
        httpsTG |-> generateLBResourceName(infraName, name, S_https),
        vpnLB |-> vpnLBName, vpnTG |-> vpnLBName,
        bucket |-> generateBucketName(infraName, name, S_ign),
        machineset |-> generateLBResourceName(infraName, name, S_worker)]

\* The names UninstallCluster passes to the Remove calls.
UninstallNames(infraName, name) ==
    LET apiLBName == generateLBResourceName(infraName, name, S_api)
        oauthTGName == generateLBResourceName(infraName, name, S_oauth)
        vpnLBName == generateLBResourceName(infraName, name, S_vpn)
        routerLBName == generateLBResourceName(infraName, name, S_apps)
        httpTGName == generateLBResourceName(infraName, name, S_http)
        httpsTGName == generateLBResourceName(infraName, name, S_https)
        bucketName == generateBucketName(infraName, name, S_ign)
    IN [eip |-> apiLBName, apiLB |-> apiLBName, apiTG |-> apiLBName,
        oauthTG |-> oauthTGName, appsLB |-> routerLBName,
        httpTG |-> httpTGName, httpsTG |-> httpsTGName,
        vpnLB |-> vpnLBName, vpnTG |-> vpnLBName,
        bucket |-> bucketName,
        machineset |-> generateMachineSetName(infraName, name, S_worker)]

\* Operations that read the management cluster or work on local files, one
\* after another: none changes anything, the first that fails ends the step.
RECURSIVE ReadOnly(_, _, _, _)
ReadOnly(c, ops, calls, fault) ==
    IF ops = <<>> THEN Ret(c, 0, "", calls)
    ELSE IF Fault(fault, calls) THEN Ret(c, 0, "Fault", Append(calls, Call(Head(ops), "")))
    ELSE ReadOnly(c, Tail(ops), Append(calls, Call(Head(ops), "")), fault)

\* Secrets(namespace).Create / Services(namespace).Create
CreateObject(c, namespace, kind, objName, fault) ==
    LET c1 == <<Call(kind \o ".Create", objName)>>
        obj == [ns |-> namespace, kind |-> kind, name |-> objName]
    IN
    IF Fault(fault, <<>>) THEN Ret(c, 0, "Fault", c1)
    ELSE IF namespace \notin c.namespaces THEN Ret(c, 0, "NotFound", c1)
    ELSE IF obj \in c.objects THEN Ret(c, 0, "AlreadyExists", c1)
    ELSE Ret([c EXCEPT !.objects = @ \cup {obj}], 0, "", c1)

\* Update of the privileged SCC object obj, read earlier: refused when the
\* object has been written since
SCCUpdate(c, obj) ==
    IF obj.version # c.scc.version THEN Ret(c, 0, "Conflict", <<>>)
    ELSE Ret([c EXCEPT !.scc = [users |-> obj.users, version |-> c.scc.version + 1]],
             0, "", <<>>)

ensurePrivilegedSCC(c, namespace, fault) ==
    LET c1 == <<Call("scc.Get", "privileged")>>
        c2 == Append(c1, Call("scc.Update", "privileged"))
        obj == c.scc
    IN
    IF Fault(fault, <<>>) THEN Ret(c, 0, "Fault", c1)
    ELSE IF namespace \in obj.users THEN Ret(c, 0, "", c1)
    ELSE IF Fault(fault, c1) THEN Ret(c, 0, "Fault", c2)
    ELSE LET u == SCCUpdate(c, [obj EXCEPT !.users = @ \cup {namespace}])
         IN Ret(u.cloud, 0, u.err, c2)

\* The result of retry.RetryOnConflict (reading and updating the default
\* service account) is not looked at.
createPullSecret(c, namespace, fault) ==
    LET s == CreateObject(c, namespace, "secrets", "pull-secret", fault)
        c2 == Append(s.calls, Call("serviceaccounts.Get", "default"))
        c3 == Append(c2, Call("serviceaccounts.Update", "default"))
    IN
    IF s.err # "" THEN s
    ELSE IF Fault(fault, s.calls) THEN Ret(s.cloud, 0, "", c2)
    ELSE IF Fault(fault, c2) THEN Ret(s.cloud, 0, "", c3)
    ELSE Ret([s.cloud EXCEPT !.saPull = @ \cup {namespace}], 0, "", c3)

\* the namespace step had it emptied a namespace it found
CreateNamespace_EmptiesExisting(c, name, fault) ==
    LET c1 == <<Call("namespaces.Get", name)>>
        c2 == Append(c1, Call("namespaces.Create", name))
    IN
    IF Fault(fault, <<>>) THEN Ret(c, 0, "Fault", c1)
    ELSE IF name \in c.namespaces
    THEN Ret([c EXCEPT !.objects = {o \in @ : o.ns # name}], 0, "NamespaceExists", c1)
    ELSE IF Fault(fault, c1) THEN Ret(c, 0, "Fault", c2)
    ELSE Ret([c EXCEPT !.namespaces = @ \cup {name}], 0, "", c2)

\* Namespaces().Get(name), then Create
CreateNamespace(c, name, fault) ==
    LET c1 == <<Call("namespaces.Get", name)>>
        c2 == Append(c1, Call("namespaces.Create", name))
    IN
    IF Fault(fault, <<>>) THEN Ret(c, 0, "Fault", c1)
    ELSE IF name \in c.namespaces THEN Ret(c, 0, "NamespaceExists", c1)
    ELSE IF Fault(fault, c1) THEN Ret(c, 0, "Fault", c2)
    ELSE Ret([c EXCEPT !.namespaces = @ \cup {name}], 0, "", c2)

\* Step label of InstallCluster(name) on cloud c: ids holds what the earlier
\* steps returned, names is InstallNames(infraName, name), and the provider
\* hands out no identity of avoid.
InstallStep(c, label, ids, avoid, names, infraName, name, parentDomain, dnsZoneID, fault) ==
    LET domain == name \o DOT \o parentDomain
        vpc == DemoLBInfo.vpc
        subnet == DemoLBInfo.subnet
        order(tg) == CHOOSE o \in Orders(TargetsOf(c, tg)) : TRUE
    IN
    CASE label = "facts" ->
             ReadOnly(c, <<"getSSHPublicKey", "getAWSCredentials", "getReleaseImage",
                           "getPullSecret", "getInfrastructureInfo", "getNetworkInfo",
                           "getDNSZoneInfo", "getMachineNames">>, <<>>, fault)
      [] label = "namespace" -> CreateNamespace(c, name, fault)
      [] label = "scc" -> ensurePrivilegedSCC(c, name, fault)
      [] label = "pullSecret" -> createPullSecret(c, name, fault)
      [] label = "apiService" -> CreateObject(c, name, "services", "kube-apiserver", fault)
      [] label = "vpnService" -> CreateObject(c, name, "services", "openvpn-server", fault)
      [] label = "openshiftService" ->
             CreateObject(c, name, "services", "openshift-apiserver", fault)
      [] label = "oauthService" -> CreateObject(c, name, "services", "oauth-openshift", fault)
      [] label = "lbInfo" -> ReadOnly(c, <<"LoadBalancerInfo">>, <<>>, fault)
      [] label = "machineInfo" -> ReadOnly(c, <<"getMachineInfo">>, <<>>, fault)
      [] label = "pki" ->
             ReadOnly(c, <<"ParseCIDR", "NextSubnet", "GeneratePKI", "GenerateIgnition">>,
                      <<>>, fault)
      [] label = "render" ->
             ReadOnly(c, <<"RenderClusterManifests", "generateWorkerMachineset">>, <<>>, fault)
      [] label = "branding" ->
             CreateObject(c, name, "secrets", "v4-0-config-system-branding", fault)
      [] label = "eip" -> EnsureEIP(WithFreshId(c, "eip", avoid), names.eip, fault)
      [] label = "apiLB" ->
             EnsureNLB(WithFreshId(c, "lb", avoid), names.apiLB, subnet, ids.eip, fault)
      [] label = "apiTG" ->
             EnsureTargetGroup(WithFreshId(c, "tg", avoid), vpc, names.apiTG, DemoPorts.api, fault)
      [] label = "oauthTG" ->
             EnsureTargetGroup(WithFreshId(c, "tg", avoid), vpc, names.oauthTG,
                               DemoPorts.oauth, fault)
      [] label = "apiTarget" ->
             EnsureTarget(c, ids.apiTG, DemoMachine.ip, order(ids.apiTG), fault)
      [] label = "oauthTarget" ->
             EnsureTarget(c, ids.oauthTG, DemoMachine.ip, order(ids.oauthTG), fault)
      [] label = "apiListener" ->
             EnsureListener(WithFreshId(c, "listener", avoid), ids.apiLB, ids.apiTG,
                            6443, FALSE, fault)
      [] label = "oauthListener" ->
             EnsureListener(WithFreshId(c, "listener", avoid), ids.apiLB, ids.oauthTG,
                            8443, FALSE, fault)
      [] label = "apiDNS" ->
             EnsureCNameRecord(c, dnsZoneID, S_apiDot \o domain, LBDNS(ids.apiLB), fault)
      [] label = "routerLB" ->
             EnsureNLB(WithFreshId(c, "lb", avoid), names.appsLB, subnet, 0, fault)
      [] label = "httpTG" ->
             EnsureTargetGroup(WithFreshId(c, "tg", avoid), vpc, names.httpTG, 31080, fault)
      [] label = "httpListener" ->
             EnsureListener(WithFreshId(c, "listener", avoid), ids.routerLB, ids.httpTG,
                            80, FALSE, fault)
      [] label = "httpsTG" ->
             EnsureTargetGroup(WithFreshId(c, "tg", avoid), vpc, names.httpsTG, 31443, fault)
      [] label = "httpsListener" ->
             EnsureListener(WithFreshId(c, "listener", avoid), ids.routerLB, ids.httpsTG,
                            443, FALSE, fault)
      [] label = "routerDNS" ->
             EnsureCNameRecord(c, dnsZoneID, S_starApps \o domain, LBDNS(ids.routerLB), fault)
      [] label = "vpnLB" ->
             EnsureNLB(WithFreshId(c, "lb", avoid), names.vpnLB, subnet, 0, fault)
      [] label = "vpnTG" ->
             EnsureUDPTargetGroup(WithFreshId(c, "tg", avoid), vpc, names.vpnTG,
                                  DemoPorts.vpn, DemoPorts.api, fault)
      [] label = "vpnTarget" ->
             EnsureTarget(c, ids.vpnTG, DemoMachine.id, order(ids.vpnTG), fault)
      [] label = "vpnListener" ->
             EnsureListener(WithFreshId(c, "listener", avoid), ids.vpnLB, ids.vpnTG,
                            1194, TRUE, fault)
      [] label = "vpnDNS" ->
             EnsureCNameRecord(c, dnsZoneID, S_vpnDot \o domain, LBDNS(ids.vpnLB), fault)
      [] label = "workersSG" -> EnsureWorkersAllowNodePortAccess(c, infraName, fault)
      [] label = "bucket" ->
             EnsureIgnitionBucket(c, names.bucket, S_bootstrapIgn, fault)
      [] label = "manifests" ->
             IF Fault(fault, <<>>) THEN Ret(c, 0, "Fault", <<Call("apply", name)>>)
             ELSE Ret(ApplyUserDataSecret(ApplyWorkerMachineset(c, infraName, name), name),
                      0, "", <<Call("apply", name)>>)

\* Namespaces().Delete(name): the objects of the namespace go with it
DeleteNamespace(c, name, fault) ==
    LET c1 == <<Call("namespaces.Delete", name)>> IN
    IF Fault(fault, <<>>) THEN Ret(c, 0, "Fault", c1)
    ELSE IF name \notin c.namespaces THEN Ret(c, 0, "NotFound", c1)
    ELSE Ret([c EXCEPT !.namespaces = @ \ {name},
                       !.objects = {o \in @ : o.ns # name},
                       !.saPull = @ \ {name}],
             0, "", c1)

\* an uninstaller that releases the Elastic IP before it removes the API
\* load balancer
UninstallSteps_EIPFirst ==
    <<"apiDNS", "eip", "apiLB", "apiTG", "oauthTG", "vpnDNS", "vpnLB", "vpnTG",
      "appsDNS", "appsLB", "httpTG", "httpsTG", "machineset", "bucket", "namespace">>

\* The remove steps of UninstallCluster, in the order it takes them.
UninstallSteps ==
    <<"apiDNS", "apiLB", "apiTG", "oauthTG", "eip", "vpnDNS", "vpnLB", "vpnTG",
      "appsDNS", "appsLB", "httpTG", "httpsTG", "machineset", "bucket", "namespace">>

Returned == Len(UninstallSteps) + 1

\* Step label of UninstallCluster(name) on cloud c: the Remove call it makes,
\* names being UninstallNames(infraName, name).
\* The namespace step drops a NotFound answer.
UninstallStep(c, label, names, infraName, name, parentDomain, dnsZoneID, freeAt, fault) ==
    LET domain == name \o DOT \o parentDomain \o DOT
    IN
    CASE label = "apiDNS" -> RemoveCNameRecord(c, dnsZoneID, S_apiDot \o domain, fault)
      [] label = "apiLB" -> RemoveNLB(c, names.apiLB, fault)
      [] label = "apiTG" -> RemoveTargetGroup(c, names.apiTG, fault)
      [] label = "oauthTG" -> RemoveTargetGroup(c, names.oauthTG, fault)
      [] label = "eip" -> RemoveEIP(c, names.eip, freeAt, fault)
      [] label = "vpnDNS" -> RemoveCNameRecord(c, dnsZoneID, S_vpnDot \o domain, fault)
      [] label = "vpnLB" -> RemoveNLB(c, names.vpnLB, fault)
      [] label = "vpnTG" -> RemoveTargetGroup(c, names.vpnTG, fault)
      [] label = "appsDNS" -> RemoveCNameRecord(c, dnsZoneID, S_escStarApps \o domain, fault)
      [] label = "appsLB" -> RemoveNLB(c, names.appsLB, fault)
      [] label = "httpTG" -> RemoveTargetGroup(c, names.httpTG, fault)
      [] label = "httpsTG" -> RemoveTargetGroup(c, names.httpsTG, fault)
      [] label = "machineset" -> removeWorkerMachineset(c, infraName, name, fault)
      [] label = "bucket" -> RemoveIgnitionBucket(c, names.bucket, fault)
      [] label = "namespace" ->
             LET r == DeleteNamespace(c, name, fault)
             IN IF r.err = "NotFound" THEN [r EXCEPT !.err = ""] ELSE r

\* The cluster's resources that cloud c still holds, by the label of the
\* step that removes them; names are the names the installer gave them.
Remaining(c, names, name, parentDomain, dnsZoneID) ==
    LET dns(prefix) == \E r \in c.dns :
                           /\ r.zone = dnsZoneID
                           /\ r.name = R53Name(prefix \o name \o DOT \o parentDomain)
    IN {l \in {UninstallSteps[i] : i \in DOMAIN UninstallSteps} :
          CASE l = "apiDNS" -> dns(S_apiDot)
            [] l = "vpnDNS" -> dns(S_vpnDot)
            [] l = "appsDNS" -> dns(S_starApps)
            [] l \in {"apiLB", "vpnLB", "appsLB"} -> LBsNamed(c, names[l]) # {}
            [] l \in {"apiTG", "oauthTG", "vpnTG", "httpTG", "httpsTG"} ->
                   TGsNamed(c, names[l]) # {}
            [] l = "eip" -> AddressesNamed(c, names.eip) # {}
            [] l = "machineset" -> names.machineset \in c.machinesets
            [] l = "bucket" -> BucketsNamed(c, names.bucket) # {}
            [] l = "namespace" -> name \in c.namespaces}

\* the names the installer gave the resources of cluster "demo"
DemoNames == InstallNames(DemoInfra, DemoName)

InitUninstall ==
    /\ cloud = InitCloud
    /\ last = NoCall
    /\ scope = "uninstall"
    /\ ins = IdleIns
    /\ un = IdleUn
    /\ gn = IdleGn
    /\ nm = IdleNm
    /\ wt = IdleWt
    /\ am = IdleAm
    /\ ins2 = IdleIns

\* InstallCluster("demo") begins.
StartInstall ==
    /\ un.pc = 0
    /\ \/ ins.pc = 0
       \/ scope = "install" /\ ins.pc = Installed /\ ins.runs < MaxRuns
    /\ ins' = [IdleIns EXCEPT !.pc = 1, !.start = cloud, !.runs = ins.runs + 1,
                              !.rerun = (ins.err # "" /\ ins.at \in EnsureSteps)]
    /\ UNCHANGED <<cloud, last, scope, un, gn, nm, wt, am, ins2>>

\* One step of the install: on an error the installer returns it and leaves
\* what it has created, otherwise it goes on to the next step.
InstallNextStep ==
    /\ ins.pc \in DOMAIN InstallSteps
    /\ \E label \in {InstallSteps[ins.pc]} :
       \E fault \in 0..(IF scope = "install" THEN MaxFaultAt ELSE 1) :
       \E names \in {InstallNames(DemoInfra, DemoName)} :
       \E r \in {InstallStep(cloud, label, ins.ids, {}, names, DemoInfra, DemoName, DemoParent,
                             DemoZone, fault)} :
           /\ cloud' = [r.cloud EXCEPT !.nextId = 0]
           /\ ins' = [ins EXCEPT !.pc = IF r.err = "" THEN @ + 1 ELSE Installed,
                                 !.err = r.err,
                                 !.ids = [@ EXCEPT ![label] = r.ret],
                                 !.at = IF r.err = "" THEN "" ELSE label,
                                 !.opFailed = @ \/ fault \in 1..Len(r.calls),
                                 !.apis = @ \cup {r.calls[i].api : i \in DOMAIN r.calls}]
    /\ UNCHANGED <<last, scope, un, gn, nm, wt, am, ins2>>

\* After a complete install and before the uninstaller runs, somebody
\* deletes one of the cluster's resources by hand (up to MaxManualDeletes of
\* them).  A load balancer goes with its listeners; a target group goes with
\* its targets, after the listeners that forward to it.
ManualDelete ==
    /\ ins.pc = Installed /\ ins.err = "" /\ un.pc = 0
    /\ \E names \in {DemoNames} :
       \E remaining \in {Remaining(cloud, names, DemoName, DemoParent, DemoZone)} :
       \E label \in remaining :
           /\ Cardinality(remaining) > Len(UninstallSteps) - MaxManualDeletes
           /\ LET named == IF label \in {"apiTG", "oauthTG", "vpnTG", "httpTG", "httpsTG"}
                           THEN {g.arn : g \in TGsNamed(cloud, names[label])} ELSE {}
                  c0 == [cloud EXCEPT !.listeners = {l \in @ : l.tg \notin named}]
                  c1 == IF label = "eip"
                        THEN [c0 EXCEPT !.eips = {a \in @ : a.tag # names.eip}]
                        ELSE UninstallStep(c0, label, names, DemoInfra, DemoName, DemoParent,
                                           DemoZone, 1, 0).cloud
              IN cloud' = [c1 EXCEPT !.nextId = 0]
    /\ UNCHANGED <<last, scope, ins, un, gn, nm, wt, am, ins2>>

\* UninstallCluster("demo") begins: a first run, when no install is under
\* way, or a run after one that has returned.
StartUninstall ==
    /\ ins.pc \in {0, Installed}
    /\ un.pc \in {0, Returned}
    /\ un' = [IdleUn EXCEPT !.pc = 1, !.rerun = (un.pc = Returned /\ un.err = "")]
    /\ UNCHANGED <<cloud, last, scope, ins, gn, nm, wt, am, ins2>>

\* One remove step: on an error the uninstaller returns it, otherwise it
\* goes on to the next step and, after the last, returns success.
UninstallNextStep ==
    /\ un.pc \in DOMAIN UninstallSteps
    /\ \E label \in {UninstallSteps[un.pc]}, fault \in 0..2 :
       \E freeAt \in IF label = "eip" THEN {0, 1, MaxPollCount} ELSE {1} :
       \E names \in {UninstallNames(DemoInfra, DemoName)} :
       \E r \in {UninstallStep(cloud, label, names, DemoInfra, DemoName, DemoParent,
                               DemoZone, freeAt, fault)} :
           /\ cloud' = [r.cloud EXCEPT !.nextId = 0]
           /\ un' = [un EXCEPT !.pc = IF r.err = "" THEN @ + 1 ELSE Returned,
                               !.err = r.err,
                               !.log = Append(@, label),
                               !.absent = @ \/ (r.err = "" /\ r.cloud = cloud),
                               !.removed = @ \/ r.cloud # cloud]
    /\ UNCHANGED <<last, scope, ins, gn, nm, wt, am, ins2>>

NextUninstall ==
    \/ StartInstall
    \/ InstallNextStep
    \/ ManualDelete
    \/ StartUninstall
    \/ UninstallNextStep

SpecUninstall == InitUninstall /\ [][NextUninstall]_vars

\* The node-port rules of the worker security group: calls of the reconciler
\* alone, and installs and uninstalls around it.
InitNodePorts ==
    /\ cloud = InitCloud
    /\ last = NoCall
    /\ scope \in {"aux", "uninstall"}
    /\ ins = IdleIns
    /\ un = IdleUn
    /\ gn = IdleGn
    /\ nm = IdleNm
    /\ wt = IdleWt
    /\ am = IdleAm
    /\ ins2 = IdleIns

NextNodePorts ==
    \/ DoEnsureWorkersAllowNodePortAccess
    \/ scope = "uninstall" /\ NextUninstall

SpecNodePorts == InitNodePorts /\ [][NextNodePorts]_vars

(***************************************************************************)
(* Runs of InstallCluster("demo"), one after another, in which the         *)
(* provider and the management cluster may fail any operation.             *)
(***************************************************************************)
InitInstall ==
    /\ cloud = InitCloud
    /\ last = NoCall
    /\ scope = "install"
    /\ ins = IdleIns
    /\ un = IdleUn
    /\ gn = IdleGn
    /\ nm = IdleNm
    /\ wt = IdleWt
    /\ am = IdleAm
    /\ ins2 = IdleIns

NextInstall == StartInstall \/ InstallNextStep

SpecInstall == InitInstall /\ [][NextInstall]_vars

(***************************************************************************)
(* Two runs of InstallCluster at the same time on one management cluster,  *)
(* run 1 for cluster "demo" and run 2 for cluster "prod".  A step that     *)
(* works on objects named after the cluster is taken at once; the steps on *)
(* the privileged SCC and on the worker security group, which belong to    *)
(* the management cluster, are taken call by call.  No operation fails for *)
(* a reason of its own.                                                    *)
(***************************************************************************)
OtherName == <<112, 114, 111, 100>>       \* "prod"

Runs == {1, 2}
RunOf(k) == IF k = 1 THEN ins ELSE ins2
NameOf(k) == IF k = 1 THEN DemoName ELSE OtherName
SetRun(k, v) == IF k = 1 THEN ins' = v /\ ins2' = ins2 ELSE ins2' = v /\ ins' = ins

\* The identities the provider hands out are opaque and only compared with
\* each other: the provider is taken to hand odd ones to run 1 and even ones
\* to run 2.
OthersIds(k) == {i \in 1..(2 * Len(InstallSteps)) : i % 2 = (k + 1) % 2}

\* the steps taken call by call
SharedSteps == {"scc", "workersSG"}

\* a run after the step it is at: returned with the error, or at the next step
AfterStep(run, err, calls) ==
    [run EXCEPT !.pc = IF err = "" THEN @ + 1 ELSE Installed,
                !.err = err,
                !.at = IF err = "" THEN "" ELSE InstallSteps[run.pc],
                !.sub = "",
                !.apis = @ \cup calls]

InitConcurrent ==
    /\ cloud = InitCloud
    /\ last = NoCall
    /\ scope = "concurrent"
    /\ ins = IdleIns
    /\ un = IdleUn
    /\ gn = IdleGn
    /\ nm = IdleNm
    /\ wt = IdleWt
    /\ am = IdleAm
    /\ ins2 = IdleIns

ConcStart ==
    \E k \in Runs :
        /\ scope = "concurrent" /\ RunOf(k).pc = 0
        /\ SetRun(k, [IdleIns EXCEPT !.pc = 1, !.runs = 1])
        /\ UNCHANGED <<cloud, last, scope, un, gn, nm, wt, am>>

\* a step on the cluster's own objects
ConcOwnStep ==
    \E k \in Runs :
        /\ scope = "concurrent" /\ RunOf(k).pc \in DOMAIN InstallSteps
        /\ InstallSteps[RunOf(k).pc] \notin SharedSteps
        /\ \E r \in {InstallStep(cloud, InstallSteps[RunOf(k).pc], RunOf(k).ids, OthersIds(k),
                                  InstallNames(DemoInfra, NameOf(k)), DemoInfra, NameOf(k),
                                  DemoParent, DemoZone, 0)} :
               /\ cloud' = [r.cloud EXCEPT !.nextId = 0]
               /\ SetRun(k, [AfterStep(RunOf(k), r.err,
                                       {r.calls[i].api : i \in DOMAIN r.calls})
                                EXCEPT !.ids = [@ EXCEPT ![InstallSteps[RunOf(k).pc]] = r.ret]])
        /\ UNCHANGED <<last, scope, un, gn, nm, wt, am>>

\* ensurePrivilegedSCC: Get("privileged"); nothing more when the service
\* account of the namespace is among the users, otherwise it is inserted
\* into the object read
ConcSCCGet ==
    \E k \in Runs :
        /\ scope = "concurrent" /\ RunOf(k).pc \in DOMAIN InstallSteps
        /\ InstallSteps[RunOf(k).pc] = "scc" /\ RunOf(k).sub = ""
        /\ IF NameOf(k) \in cloud.scc.users
           THEN SetRun(k, AfterStep(RunOf(k), "", {"scc.Get"}))
           ELSE SetRun(k, [RunOf(k) EXCEPT !.sub = "update",
                                          !.obj = [cloud.scc EXCEPT !.users = @ \cup {NameOf(k)}],
                                          !.apis = @ \cup {"scc.Get"}])
        /\ UNCHANGED <<cloud, last, scope, un, gn, nm, wt, am>>

\* ensurePrivilegedSCC: Update(obj), whose error is returned
ConcSCCUpdate ==
    \E k \in Runs :
        /\ scope = "concurrent" /\ RunOf(k).pc \in DOMAIN InstallSteps
        /\ InstallSteps[RunOf(k).pc] = "scc" /\ RunOf(k).sub = "update"
        /\ \E u \in {SCCUpdate(cloud, RunOf(k).obj)} :
               /\ cloud' = u.cloud
               /\ SetRun(k, AfterStep(RunOf(k), u.err, {"scc.Update"}))
        /\ UNCHANGED <<last, scope, un, gn, nm, wt, am>>

\* EnsureWorkersAllowNodePortAccess: DescribeSecurityGroups and the search
\* for the two node port rules
ConcSGDescribe ==
    \E k \in Runs :
        /\ scope = "concurrent" /\ RunOf(k).pc \in DOMAIN InstallSteps
        /\ InstallSteps[RunOf(k).pc] = "workersSG" /\ RunOf(k).sub = ""
        /\ IF SGsNamed(cloud, DemoInfra \o S_workerSG) = {}
           THEN SetRun(k, AfterStep(RunOf(k), "NoWorkersSecurityGroup",
                                    {"DescribeSecurityGroups"}))
           ELSE \E sg \in SGsNamed(cloud, DemoInfra \o S_workerSG) :
                \E found \in {{TCPRule, UDPRule} \cap sg.perms} :
                    IF found = {TCPRule, UDPRule}
                    THEN SetRun(k, AfterStep(RunOf(k), "", {"DescribeSecurityGroups"}))
                    ELSE SetRun(k, [RunOf(k) EXCEPT
                                      !.sub = IF TCPRule \in found THEN "udp" ELSE "tcp",
                                      !.found = found,
                                      !.apis = @ \cup {"DescribeSecurityGroups"}])
        /\ UNCHANGED <<cloud, last, scope, un, gn, nm, wt, am>>

\* EnsureWorkersAllowNodePortAccess: AuthorizeSecurityGroupIngress for a
\* rule that was not found; the provider refuses a rule the group already
\* has (InvalidPermission.Duplicate), and the error is returned
ConcSGAuthorize ==
    \E k \in Runs :
        /\ scope = "concurrent" /\ RunOf(k).pc \in DOMAIN InstallSteps
        /\ InstallSteps[RunOf(k).pc] = "workersSG" /\ RunOf(k).sub \in {"tcp", "udp"}
        /\ \E rule \in {IF RunOf(k).sub = "tcp" THEN TCPRule ELSE UDPRule} :
           \E sg \in SGsNamed(cloud, DemoInfra \o S_workerSG) :
               IF rule \in sg.perms
               THEN /\ cloud' = cloud
                    /\ SetRun(k, AfterStep(RunOf(k), "InvalidPermission.Duplicate",
                                           {"AuthorizeSecurityGroupIngress"}))
               ELSE /\ cloud' = Authorize(cloud, DemoInfra \o S_workerSG, rule)
                    /\ IF rule = TCPRule /\ UDPRule \notin RunOf(k).found
                       THEN SetRun(k, [RunOf(k) EXCEPT
                                         !.sub = "udp",
                                         !.apis = @ \cup {"AuthorizeSecurityGroupIngress"}])
                       ELSE SetRun(k, AfterStep(RunOf(k), "",
                                                {"AuthorizeSecurityGroupIngress"}))
        /\ UNCHANGED <<last, scope, un, gn, nm, wt, am>>

NextConcurrent ==
    ConcStart \/ ConcOwnStep \/ ConcSCCGet \/ ConcSCCUpdate \/ ConcSGDescribe
    \/ ConcSGAuthorize

SpecConcurrent == InitConcurrent /\ [][NextConcurrent]_vars

(***************************************************************************)
(* Two runs of InstallCluster for the same cluster name.  The existence    *)
(* check of the namespace and its creation are two requests; the API       *)
(* server creates a namespace of a given name once and answers             *)
(* AlreadyExists to any later Create.                                      *)
(***************************************************************************)
NamespaceStep == CHOOSE i \in DOMAIN InstallSteps : InstallSteps[i] = "namespace"

InitSameName ==
    /\ cloud = InitCloud
    /\ last = NoCall
    /\ scope = "sameName"
    /\ ins = IdleIns
    /\ un = IdleUn
    /\ gn = IdleGn
    /\ nm = IdleNm
    /\ wt = IdleWt
    /\ am = IdleAm
    /\ ins2 = IdleIns

SameStart ==
    \E k \in Runs :
        /\ scope = "sameName" /\ RunOf(k).pc = 0
        /\ SetRun(k, [IdleIns EXCEPT !.pc = 1, !.runs = 1])
        /\ UNCHANGED <<cloud, last, scope, un, gn, nm, wt, am>>

\* Namespaces().Get(name): success is the error "already exists", NotFound
\* lets the run go on to the creation, any other error is returned
SameNamespaceGet ==
    \E k \in Runs, fault \in BOOLEAN :
        /\ scope = "sameName" /\ RunOf(k).pc = NamespaceStep /\ RunOf(k).sub = ""
        /\ IF fault
           THEN SetRun(k, AfterStep(RunOf(k), "Fault", {"namespaces.Get"}))
           ELSE IF DemoName \in cloud.namespaces
           THEN SetRun(k, AfterStep(RunOf(k), "NamespaceExists", {"namespaces.Get"}))
           ELSE SetRun(k, [RunOf(k) EXCEPT !.sub = "create", !.apis = @ \cup {"namespaces.Get"}])
        /\ UNCHANGED <<cloud, last, scope, un, gn, nm, wt, am>>

\* the creation had it taken an existing namespace for its own
SameNamespaceCreate_ToleratesExists ==
    \E k \in Runs :
        /\ scope = "sameName" /\ RunOf(k).pc = NamespaceStep /\ RunOf(k).sub = "create"
        /\ cloud' = [cloud EXCEPT !.namespaces = @ \cup {DemoName}]
        /\ SetRun(k, AfterStep(RunOf(k), "", {"namespaces.Create"}))
        /\ UNCHANGED <<last, scope, un, gn, nm, wt, am>>

\* Namespaces().Create(ns), whose error is returned
SameNamespaceCreate ==
    \E k \in Runs :
        /\ scope = "sameName" /\ RunOf(k).pc = NamespaceStep /\ RunOf(k).sub = "create"
        /\ IF DemoName \in cloud.namespaces
           THEN /\ cloud' = cloud
                /\ SetRun(k, AfterStep(RunOf(k), "AlreadyExists", {"namespaces.Create"}))
           ELSE /\ cloud' = [cloud EXCEPT !.namespaces = @ \cup {DemoName}]
                /\ SetRun(k, AfterStep(RunOf(k), "", {"namespaces.Create"}))
        /\ UNCHANGED <<last, scope, un, gn, nm, wt, am>>

\* every other step of a run
SameOtherStep ==
    \E k \in Runs :
        /\ scope = "sameName" /\ RunOf(k).pc \in DOMAIN InstallSteps
        /\ RunOf(k).pc # NamespaceStep
        /\ \E r \in {InstallStep(cloud, InstallSteps[RunOf(k).pc], RunOf(k).ids, {},
                                  InstallNames(DemoInfra, DemoName), DemoInfra, DemoName,
                                  DemoParent, DemoZone, 0)} :
               /\ cloud' = [r.cloud EXCEPT !.nextId = 0]
               /\ SetRun(k, [AfterStep(RunOf(k), r.err,
                                       {r.calls[i].api : i \in DOMAIN r.calls})
                                EXCEPT !.ids = [@ EXCEPT ![InstallSteps[RunOf(k).pc]] = r.ret]])
        /\ UNCHANGED <<last, scope, un, gn, nm, wt, am>>

NextSameName == SameStart \/ SameNamespaceGet \/ SameNamespaceCreate \/ SameOtherStep

SpecSameName == InitSameName /\ [][NextSameName]_vars

(***************************************************************************)
(* Naming.  Either getName is called on one input (gn), or the installer   *)
(* and the uninstaller each compute the names of one cluster (nm).         *)
(***************************************************************************)
\* a string of n lower-case letters
Letters(n) == [i \in 1..n |-> 97 + (i % 26)]

Bases == {Letters(n) : n \in 0..MaxBaseLen} \cup {DemoInfra \o DASH \o DemoName}
Suffixes == {Slice(S_worker, 0, min(n, Len(S_worker))) : n \in 0..MaxSuffixLen}
MaxLengths == (0 - MaxNegLength)..MaxMaxLength

Infras == {Letters(n) : n \in 1..MaxInfraLen} \cup {DemoInfra}
ClusterNames == {DemoName, <<120>>, Letters(MaxInfraLen \div 2)}

InitNaming ==
    /\ cloud = InitCloud
    /\ last = NoCall
    /\ ins = IdleIns
    /\ wt = IdleWt
    /\ am = IdleAm
    /\ ins2 = IdleIns
    /\ un = IdleUn
    /\ \/ /\ scope = "getName"
          /\ nm = IdleNm
          /\ \E base \in Bases, suffix \in Suffixes, maxLength \in MaxLengths :
                 gn = [base |-> base, suffix |-> suffix, maxLength |-> maxLength,
                       out |-> NoStr, called |-> FALSE]
       \/ /\ scope = "names"
          /\ gn = IdleGn
          /\ \E infraName \in Infras, name \in ClusterNames :
                 nm = [IdleNm EXCEPT !.infra = infraName, !.name = name]

CallGetName ==
    /\ scope = "getName" /\ ~gn.called
    /\ gn' = [gn EXCEPT !.out = getName(gn.base, gn.suffix, gn.maxLength),
                        !.called = TRUE]
    /\ UNCHANGED <<cloud, last, scope, ins, un, nm, wt, am, ins2>>

InstallComputesNames ==
    /\ scope = "names" /\ nm.install = NoNames
    /\ nm' = [nm EXCEPT !.install = InstallNames(nm.infra, nm.name)]
    /\ UNCHANGED <<cloud, last, scope, ins, un, gn, wt, am, ins2>>

UninstallComputesNames ==
    /\ scope = "names" /\ nm.uninstall = NoNames
    /\ nm' = [nm EXCEPT !.uninstall = UninstallNames(nm.infra, nm.name)]
    /\ UNCHANGED <<cloud, last, scope, ins, un, gn, wt, am, ins2>>

NextNaming == CallGetName \/ InstallComputesNames \/ UninstallComputesNames

SpecNaming == InitNaming /\ [][NextNaming]_vars

(***************************************************************************)
(* waitForNodesReady(client, expectedCount).  A node is the sequence of    *)
(* conditions of its status, a listing is a sequence of nodes.  Every      *)
(* watch event makes the condition function list the nodes anew; the wait  *)
(* ends when the condition function says done, when it returns an error,   *)
(* or when the context's deadline passes.  Time is counted in minutes.     *)
(***************************************************************************)
ApiEndpointTimeout == 10
NodesReadyTimeout == 10
BootstrapPodCompleteTimeout == 5
ClusterOperatorsReadyTimeout == 15

workerMachineSetCount == 3

\* the pod watch had it no deadline
TimeoutOf_NoBootstrapDeadline(wait) ==
    CASE wait = "api" -> ApiEndpointTimeout
      [] wait = "bootstrap" -> 0 - 1
      [] wait = "nodes" -> NodesReadyTimeout
      [] wait = "operators" -> ClusterOperatorsReadyTimeout

TimeoutOf(wait) ==
    CASE wait = "api" -> ApiEndpointTimeout
      [] wait = "bootstrap" -> BootstrapPodCompleteTimeout
      [] wait = "nodes" -> NodesReadyTimeout
      [] wait = "operators" -> ClusterOperatorsReadyTimeout

Cond(type, status) == [type |-> type, status |-> status]

\* what a node reports: nothing yet, its Ready condition, or another
\* condition followed by its Ready condition
NodeConditions ==
    {<<>>} \cup {<<Cond("Ready", st)>> : st \in {"True", "False", "Unknown"}}
           \cup {<<Cond("MemoryPressure", "False"), Cond("Ready", st)>> : st \in {"True", "False"}}

\* the listings that differ from items by at most one node: a node joined,
\* a node left, or a node's conditions changed
NodeEvents(items) ==
    {items}
    \cup (IF Len(items) < (IF scope = "ready" THEN workerMachineSetCount ELSE MaxNodes)
          THEN {Append(items, n) : n \in NodeConditions} ELSE {})
    \cup {[items EXCEPT ![i] = n] : i \in DOMAIN items, n \in NodeConditions}
    \cup {SubSeq(items, 1, i - 1) \o SubSeq(items, i + 1, Len(items)) : i \in DOMAIN items}

\* for _, cond := range node.Status.Conditions: "ready" (ready = true; break),
\* "notReady" (return false, nil) or "notFound" (the loop ends, ready is false)
RECURSIVE ReadyOf(_, _)
ReadyOf(conds, j) ==
    IF j > Len(conds) THEN "notFound"
    ELSE IF conds[j].type = "Ready"
         THEN (IF conds[j].status = "True" THEN "ready" ELSE "notReady")
         ELSE ReadyOf(conds, j + 1)

\* for _, node := range nodeList.Items
RECURSIVE EveryNodeReady(_, _)
EveryNodeReady(items, i) ==
    IF i > Len(items) THEN TRUE
    ELSE IF ReadyOf(items[i], 1) = "ready" THEN EveryNodeReady(items, i + 1)
    ELSE FALSE

\* allNodesReady had it counted no nodes
allNodesReady_IgnoresCount(items, expectedCount, listErr) ==
    IF listErr THEN [done |-> FALSE, err |-> "ListError"]
    ELSE [done |-> EveryNodeReady(items, 1), err |-> ""]

\* allNodesReady had it returned an error for a node that is not ready
allNodesReady_FailsOnNotReady(items, expectedCount, listErr) ==
    IF listErr THEN [done |-> FALSE, err |-> "ListError"]
    ELSE IF Len(items) < expectedCount THEN [done |-> FALSE, err |-> ""]
    ELSE IF EveryNodeReady(items, 1) THEN [done |-> TRUE, err |-> ""]
    ELSE [done |-> FALSE, err |-> "NotReady"]

\* the condition function: (done, err) for the listing items, listErr saying
\* that the List request failed
allNodesReady(items, expectedCount, listErr) ==
    IF listErr THEN [done |-> FALSE, err |-> "ListError"]
    ELSE IF Len(items) < expectedCount THEN [done |-> FALSE, err |-> ""]
    ELSE [done |-> EveryNodeReady(items, 1), err |-> ""]

InitWait ==
    /\ cloud = InitCloud
    /\ last = NoCall
    /\ scope = "wait"
    /\ ins = IdleIns
    /\ un = IdleUn
    /\ gn = IdleGn
    /\ nm = IdleNm
    /\ wt = IdleWt
    /\ am = IdleAm
    /\ ins2 = IdleIns

\* waitForNodesReady is called; the cluster has some nodes already
StartWait ==
    /\ wt.pc = "idle"
    /\ \E expectedCount \in 0..MaxNodes, n \in 0..MaxNodes :
       \E items \in [1..n -> NodeConditions] :
           wt' = [IdleWt EXCEPT !.pc = "waiting", !.expectedCount = expectedCount,
                                !.nodes = items, !.wait = "nodes", !.log = <<"nodes">>]
    /\ UNCHANGED <<cloud, last, scope, ins, un, gn, nm, am, ins2>>

\* a watch event arrives before the deadline and the condition function runs
WaitEvent ==
    /\ wt.pc = "waiting" /\ wt.wait = "nodes" /\ wt.elapsed < NodesReadyTimeout
    /\ \E items \in NodeEvents(wt.nodes), listErr \in BOOLEAN :
       \E r \in {allNodesReady(items, wt.expectedCount, listErr)} :
           wt' = [wt EXCEPT !.nodes = items,
                            !.obs = IF listErr THEN "error" ELSE "listing",
                            !.sawNotReady = @ \/ (~listErr /\ \E i \in DOMAIN items :
                                                     ReadyOf(items[i], 1) = "notReady"),
                            !.pc = IF r.done \/ r.err # "" THEN "done" ELSE "waiting",
                            !.err = r.err]
    /\ UNCHANGED <<cloud, last, scope, ins, un, gn, nm, am, ins2>>

\* a minute passes; at the deadline the wait returns the timeout error
WaitTick ==
    /\ wt.pc = "waiting" /\ wt.elapsed < TimeoutOf(wt.wait)
    /\ wt' = [wt EXCEPT !.elapsed = @ + 1,
                        !.pc = IF wt.elapsed + 1 = TimeoutOf(wt.wait) THEN "done" ELSE "waiting",
                        !.err = IF wt.elapsed + 1 = TimeoutOf(wt.wait) THEN "Timeout" ELSE ""]
    /\ UNCHANGED <<cloud, last, scope, ins, un, gn, nm, am, ins2>>

NextWait == StartWait \/ WaitEvent \/ WaitTick

SpecWait == InitWait /\ [][NextWait]_vars

(***************************************************************************)
(* The end of InstallCluster(name, ..., waitForReady): with waitForReady   *)
(* the four waits, one after another.  waitForAPIEndpoint polls /healthz   *)
(* until its deadline; the other three are watches whose condition         *)
(* function runs on every event until the deadline of their context.      *)
(***************************************************************************)
\* what a /healthz request ends in: an error of the client (no connection,
\* TLS handshake refused, no answer within 3 seconds) or a status code
PollResults == {"connError", "tlsError", "200", "404", "503"}

\* the condition function of waitForAPIEndpoint had it returned the error
\* of the request
healthz_ErrorIsFatal(result) ==
    IF result \in {"connError", "tlsError"} THEN [done |-> FALSE, err |-> result]
    ELSE [done |-> result = "200", err |-> ""]

\* the condition function of waitForAPIEndpoint
healthz(result) ==
    IF result \in {"connError", "tlsError"} THEN [done |-> FALSE, err |-> ""]
    ELSE [done |-> result = "200", err |-> ""]

\* the objects an event of the pod watch can carry: a pod, or an object that
\* is no pod (name "")
PodEvents ==
    {[name |-> n, phase |-> ph] : n \in {"manifests-bootstrapper", "other"},
                                  ph \in {"Pending", "Running", "Succeeded", "Failed"}}
    \cup {[name |-> "", phase |-> ""]}

\* the namespaces whose pods the watch of waitForBootstrapPod delivers: it
\* is opened on namespace "", which is every namespace of the management
\* cluster
PodNamespaces == {"demo", "prod"}

\* podIsComplete had it given up on a pod that failed
podIsComplete_FailedIsFatal(pod) ==
    IF pod.name = "" THEN [done |-> FALSE, err |-> "UnexpectedObjectType"]
    ELSE IF pod.name # "manifests-bootstrapper" THEN [done |-> FALSE, err |-> "UnexpectedPodName"]
    ELSE IF pod.phase = "Failed" THEN [done |-> FALSE, err |-> "PodFailed"]
    ELSE [done |-> pod.phase = "Succeeded", err |-> ""]

podIsComplete(pod) ==
    IF pod.name = "" THEN [done |-> FALSE, err |-> "UnexpectedObjectType"]
    ELSE IF pod.name # "manifests-bootstrapper" THEN [done |-> FALSE, err |-> "UnexpectedPodName"]
    ELSE [done |-> pod.phase = "Succeeded", err |-> ""]

\* what a cluster operator reports: nothing yet, its Available condition, or
\* another condition followed by its Available condition
OperatorConditions ==
    {<<>>} \cup {<<Cond("Available", st)>> : st \in {"True", "False", "Unknown"}}
           \cup {<<Cond("Degraded", "False"), Cond("Available", st)>> : st \in {"True", "False"}}

\* the listings that differ from items by at most one operator
OperatorEvents(items) ==
    {items}
    \cup (IF Len(items) < MaxOperators THEN {Append(items, o) : o \in OperatorConditions}
          ELSE {})
    \cup {[items EXCEPT ![i] = o] : i \in DOMAIN items, o \in OperatorConditions}
    \cup {SubSeq(items, 1, i - 1) \o SubSeq(items, i + 1, Len(items)) : i \in DOMAIN items}

\* for _, condition := range co.Status.Conditions
RECURSIVE AvailableOf(_, _)
AvailableOf(conds, j) ==
    IF j > Len(conds) THEN "notFound"
    ELSE IF conds[j].type = "Available"
         THEN (IF conds[j].status = "True" THEN "available" ELSE "notAvailable")
         ELSE AvailableOf(conds, j + 1)

\* for _, co := range operatorList.Items
RECURSIVE EveryOperatorAvailable(_, _)
EveryOperatorAvailable(items, i) ==
    IF i > Len(items) THEN TRUE
    ELSE IF AvailableOf(items[i], 1) = "available" THEN EveryOperatorAvailable(items, i + 1)
    ELSE FALSE

\* clusterOperatorsAreAvailable had it returned an error for an operator
\* that is not available
clusterOperatorsAreAvailable_FailsOnNotAvailable(items, listErr) ==
    IF listErr THEN [done |-> FALSE, err |-> "ListError"]
    ELSE IF EveryOperatorAvailable(items, 1) THEN [done |-> TRUE, err |-> ""]
    ELSE [done |-> FALSE, err |-> "NotAvailable"]

clusterOperatorsAreAvailable(items, listErr) ==
    IF listErr THEN [done |-> FALSE, err |-> "ListError"]
    ELSE [done |-> EveryOperatorAvailable(items, 1), err |-> ""]

\* a run that calls the waits in another order
NextWaitOf_NodesFirst(wait) ==
    CASE wait = "" -> "api"
      [] wait = "api" -> "nodes"
      [] wait = "nodes" -> "bootstrap"
      [] wait = "bootstrap" -> "operators"
      [] OTHER -> ""

\* the wait InstallCluster calls after wait ("": none)
NextWaitOf(wait) ==
    CASE wait = "" -> "api"
      [] wait = "api" -> "bootstrap"
      [] wait = "bootstrap" -> "nodes"
      [] wait = "nodes" -> "operators"
      [] OTHER -> ""

InitReady ==
    /\ cloud = InitCloud
    /\ last = NoCall
    /\ scope = "ready"
    /\ ins = IdleIns
    /\ un = IdleUn
    /\ gn = IdleGn
    /\ nm = IdleNm
    /\ wt = IdleWt
    /\ am = IdleAm
    /\ ins2 = IdleIns

\* InstallCluster after the manifests are applied, and after a wait has
\* returned: it returns the error of the wait, or calls the next wait, or
\* returns success.  waitForAPIEndpoint reads the CA file and
\* waitForClusterOperators makes its client before they wait, and
\* InstallCluster makes the client of the new cluster before it calls
\* waitForNodesReady: each of these can fail (setupErr).
InstallAfterManifests ==
    /\ scope = "ready" /\ ins.pc = Installed /\ ins.err = ""
    /\ wt.pc \in {"idle", "done"}
    /\ \E waitForReady \in IF wt.pc = "idle" THEN BOOLEAN ELSE {wt.waitForReady} :
       \E next \in {NextWaitOf(wt.wait)} :
       \E setupErr \in BOOLEAN :
          IF wt.err # "" \/ ~waitForReady \/ next = ""
          THEN wt' = [wt EXCEPT !.pc = "returned", !.waitForReady = waitForReady]
          ELSE IF setupErr /\ next = "nodes"
          THEN wt' = [wt EXCEPT !.pc = "returned", !.err = "TargetClusterConfig"]
          ELSE wt' = [IdleWt EXCEPT
                        !.pc = IF setupErr /\ next # "bootstrap" THEN "done" ELSE "waiting",
                        !.err = IF setupErr /\ next = "api" THEN "CAFile"
                                ELSE IF setupErr /\ next = "operators" THEN "ClientConfig"
                                ELSE "",
                        !.wait = next,
                        !.waitForReady = TRUE,
                        !.log = Append(wt.log, next),
                        !.expectedCount = IF next = "nodes" THEN workerMachineSetCount ELSE 0]
    /\ UNCHANGED <<cloud, last, scope, ins, un, gn, nm, am, ins2>>

\* a poll of waitForAPIEndpoint before the deadline
ApiPoll ==
    /\ wt.pc = "waiting" /\ wt.wait = "api" /\ wt.elapsed < ApiEndpointTimeout
    /\ \E result \in PollResults :
       \E r \in {healthz(result)} :
           wt' = [wt EXCEPT !.poll = result,
                            !.pc = IF r.done \/ r.err # "" THEN "done" ELSE "waiting",
                            !.err = r.err]
    /\ UNCHANGED <<cloud, last, scope, ins, un, gn, nm, am, ins2>>

\* an event of the pod watch before the deadline
BootstrapEvent ==
    /\ wt.pc = "waiting" /\ wt.wait = "bootstrap"
    /\ wt.elapsed < BootstrapPodCompleteTimeout
    /\ \E pod \in PodEvents, namespace \in PodNamespaces :
       \E r \in {podIsComplete(pod)} :
           wt' = [wt EXCEPT !.pod = pod, !.podNs = namespace, !.obs = "event",
                            !.pc = IF r.done \/ r.err # "" THEN "done" ELSE "waiting",
                            !.err = r.err]
    /\ UNCHANGED <<cloud, last, scope, ins, un, gn, nm, am, ins2>>

\* an event of the cluster operator watch before the deadline: the
\* condition function lists the operators anew
OperatorsEvent ==
    /\ wt.pc = "waiting" /\ wt.wait = "operators"
    /\ wt.elapsed < ClusterOperatorsReadyTimeout
    /\ \E items \in OperatorEvents(wt.ops), listErr \in BOOLEAN :
       \E r \in {clusterOperatorsAreAvailable(items, listErr)} :
           wt' = [wt EXCEPT !.ops = items,
                            !.obs = IF listErr THEN "error" ELSE "listing",
                            !.pc = IF r.done \/ r.err # "" THEN "done" ELSE "waiting",
                            !.err = r.err]
    /\ UNCHANGED <<cloud, last, scope, ins, un, gn, nm, am, ins2>>

NextReady ==
    \/ StartInstall \/ InstallNextStep \/ InstallAfterManifests
    \/ ApiPoll \/ BootstrapEvent \/ WaitEvent \/ OperatorsEvent \/ WaitTick

SpecReady == InitReady /\ [][NextReady]_vars

\* the clock goes on
SpecReadyFair == SpecReady /\ WF_vars(WaitTick)

(***************************************************************************)
(* applyManifests(cfg, namespace, directory, exclude, excludedDir): the    *)
(* excluded manifests are moved out of the directory, then the directory   *)
(* is applied under retry.OnError with a backoff of BackoffSteps steps.    *)
(***************************************************************************)
excludeManifests ==
    <<"kube-apiserver-service.yaml", "openshift-apiserver-service.yaml",
      "openvpn-server-service.yaml", "v4-0-config-system-branding.yaml",
      "oauth-server-service.yaml">>

BackoffSteps == 3

\* the errors an apply attempt can end with
ApplyErrors == {"Conflict", "ServerTimeout", "Invalid"}

\* the retriable function had it accepted conflicts only
Retriable_ConflictOnly(err) == err = "Conflict"

\* func(err error) bool { return true }
Retriable(err) == TRUE

InitApply ==
    /\ cloud = InitCloud
    /\ last = NoCall
    /\ scope = "apply"
    /\ ins = IdleIns
    /\ un = IdleUn
    /\ gn = IdleGn
    /\ nm = IdleNm
    /\ wt = IdleWt
    /\ am = IdleAm
    /\ ins2 = IdleIns

\* manifests of the directory that are not on the exclusion list
OtherManifests == {"kube-apiserver-deployment.yaml", "machine-user-data.json"}

\* applyManifests is called on a directory that holds some of the manifests
\* of the exclusion list and the other manifests
StartApply ==
    /\ am.pc = "idle"
    /\ \E excluded \in SUBSET {excludeManifests[i] : i \in DOMAIN excludeManifests} :
       \E present \in {excluded \cup OtherManifests} :
           am' = [IdleAm EXCEPT !.pc = "moving", !.present = present, !.given = present]
    /\ UNCHANGED <<cloud, last, scope, ins, un, gn, nm, wt, ins2>>

\* the loop over the exclusion list had it gone on after a failed os.Rename
MoveExcluded_IgnoresRenameError ==
    /\ am.pc = "moving"
    /\ IF am.moved = Len(excludeManifests)
       THEN am' = [am EXCEPT !.pc = "applying"]
       ELSE \E renameErr \in BOOLEAN :
                IF renameErr \/ excludeManifests[am.moved + 1] \notin am.present
                THEN am' = [am EXCEPT !.moved = @ + 1]
                ELSE am' = [am EXCEPT !.moved = @ + 1,
                                      !.present = @ \ {excludeManifests[am.moved + 1]}]
    /\ UNCHANGED <<cloud, last, scope, ins, un, gn, nm, wt, ins2>>

\* for _, f := range exclude: os.Rename, which fails for a missing file and
\* may fail for one that is there
MoveExcluded ==
    /\ am.pc = "moving"
    /\ IF am.moved = Len(excludeManifests)
       THEN am' = [am EXCEPT !.pc = "applying"]
       ELSE \E renameErr \in BOOLEAN :
                IF renameErr \/ excludeManifests[am.moved + 1] \notin am.present
                THEN am' = [am EXCEPT !.pc = "done", !.err = "Rename"]
                ELSE am' = [am EXCEPT !.moved = @ + 1,
                                      !.present = @ \ {excludeManifests[am.moved + 1]}]
    /\ UNCHANGED <<cloud, last, scope, ins, un, gn, nm, wt, ins2>>

\* one attempt of retry.OnError: the applier runs on the directory; a nil
\* result ends the retries with success, an error that is not retriable or
\* that comes when the steps are used up is returned, and otherwise the
\* next attempt follows after the backoff
ApplyAttempt ==
    /\ am.pc = "applying"
    /\ \E result \in {"ok"} \cup ApplyErrors :
       \E attempts \in {Append(am.attempts, result)} :
           am' = [am EXCEPT !.attempts = attempts,
                            !.applied = @ \cup am.present,
                            !.pc = IF \/ result = "ok"
                                      \/ ~Retriable(result)
                                      \/ Len(attempts) = BackoffSteps
                                   THEN "done" ELSE "applying",
                            !.err = IF result = "ok" THEN ""
                                    ELSE IF ~Retriable(result) \/ Len(attempts) = BackoffSteps
                                    THEN result ELSE ""]
    /\ UNCHANGED <<cloud, last, scope, ins, un, gn, nm, wt, ins2>>

NextApply == StartApply \/ MoveExcluded \/ ApplyAttempt

SpecApply == InitApply /\ [][NextApply]_vars

\* The object InstallCluster creates through the API for each manifest of
\* the exclusion list, and the step that creates it.
CreatedDirectly ==
    [f \in {excludeManifests[i] : i \in DOMAIN excludeManifests} |->
        CASE f = "kube-apiserver-service.yaml" ->
                 [step |-> "apiService", kind |-> "services", name |-> "kube-apiserver"]
          [] f = "openshift-apiserver-service.yaml" ->
                 [step |-> "openshiftService", kind |-> "services", name |-> "openshift-apiserver"]
          [] f = "openvpn-server-service.yaml" ->
                 [step |-> "vpnService", kind |-> "services", name |-> "openvpn-server"]
          [] f = "v4-0-config-system-branding.yaml" ->
                 [step |-> "branding", kind |-> "secrets", name |-> "v4-0-config-system-branding"]
          [] f = "oauth-server-service.yaml" ->
                 [step |-> "oauthService", kind |-> "services", name |-> "oauth-openshift"]]

\* the position of the manifests step in InstallCluster
ManifestsStep == CHOOSE i \in DOMAIN InstallSteps : InstallSteps[i] = "manifests"

\* One run of InstallCluster with its call of applyManifests taken apart:
\* the steps before it, then the moves and the apply attempts.
InitRunApply ==
    /\ cloud = InitCloud
    /\ last = NoCall
    /\ scope = "runApply"
    /\ ins = IdleIns
    /\ un = IdleUn
    /\ gn = IdleGn
    /\ nm = IdleNm
    /\ wt = IdleWt
    /\ am = IdleAm
    /\ ins2 = IdleIns

NextRunApply ==
    \/ ins.pc = 0 /\ StartInstall
    \/ ins.pc < ManifestsStep /\ InstallNextStep
    \/ ins.pc = ManifestsStep /\ ins.err = "" /\ StartApply
    \/ MoveExcluded
    \/ ApplyAttempt

SpecRunApply == InitRunApply /\ [][NextRunApply]_vars

(***************************************************************************)
(* The CIDRs of the new cluster.  An address is a number below AddrSpace;  *)
(* a CIDR is an address and a prefix length, written in the network        *)
(* configuration of the management cluster with or without host bits.      *)
(***************************************************************************)
AddrSpace == 2 ^ AddrBits

\* number of addresses of a subnet with the given prefix length
SubnetSize(len) == 2 ^ (AddrBits - len)

CIDRs == [ip : 0..(AddrSpace - 1), len : 0..AddrBits]

\* net.ParseCIDR: the network of the CIDR, its address masked by the prefix
ParseCIDR(cidr) == [ip |-> cidr.ip - (cidr.ip % SubnetSize(cidr.len)), len |-> cidr.len]

\* gocidr.NextSubnet: the subnet of prefixLen that follows the one holding
\* the last address of network; the increment of the last address wraps to
\* zero at the end of the address space, which is reported as exceedsMax.
NextSubnet(network, prefixLen) ==
    LET size == SubnetSize(prefixLen)
        currentLast == network.ip + SubnetSize(network.len) - 1
        currentSubnet == currentLast - (currentLast % size)
        last_ == (currentSubnet + size) % AddrSpace
    IN [net |-> [ip |-> last_ - (last_ % size), len |-> prefixLen], exceedsMax |-> last_ = 0]

\* InstallCluster had it used the next subnets whatever exceedsMax says.
ClusterCIDRs_IgnoresExceedsMax(serviceCIDR, podCIDR) ==
    LET serviceCIDRNet == ParseCIDR(serviceCIDR)
        podCIDRNet == ParseCIDR(podCIDR)
        service == NextSubnet(serviceCIDRNet, serviceCIDRNet.len)
        pod == NextSubnet(podCIDRNet, podCIDRNet.len)
    IN [err |-> "", service |-> service.net, pod |-> pod.net]

\* InstallCluster: params.ServiceCIDR and params.PodCIDR, or the error
ClusterCIDRs(serviceCIDR, podCIDR) ==
    LET serviceCIDRNet == ParseCIDR(serviceCIDR)
        podCIDRNet == ParseCIDR(podCIDR)
        service == NextSubnet(serviceCIDRNet, serviceCIDRNet.len)
        pod == NextSubnet(podCIDRNet, podCIDRNet.len)
    IN IF service.exceedsMax
       THEN [err |-> "ServiceCIDRExceedsMax", service |-> service.net, pod |-> pod.net]
       ELSE IF pod.exceedsMax
       THEN [err |-> "PodCIDRExceedsMax", service |-> service.net, pod |-> pod.net]
       ELSE [err |-> "", service |-> service.net, pod |-> pod.net]

InitCIDR ==
    /\ cloud = InitCloud
    /\ \E serviceCIDR \in CIDRs, podCIDR \in CIDRs :
           last = [NoCall EXCEPT !.args = <<serviceCIDR, podCIDR>>]
    /\ scope = "cidr"
    /\ ins = IdleIns
    /\ un = IdleUn
    /\ gn = IdleGn
    /\ nm = IdleNm
    /\ wt = IdleWt
    /\ am = IdleAm
    /\ ins2 = IdleIns

\* InstallCluster reaches the computation of the CIDRs with the two CIDRs
\* getNetworkInfo read.
ComputeClusterCIDRs ==
    /\ scope = "cidr"
    /\ last.op = "none"
    /\ \E r \in {ClusterCIDRs(last.args[1], last.args[2])} :
           last' = [last EXCEPT !.op = "InstallCluster.CIDRs", !.ret = r, !.err = r.err]
    /\ UNCHANGED <<cloud, scope, ins, un, gn, nm, wt, am, ins2>>

NextCIDR == ComputeClusterCIDRs

SpecCIDR == InitCIDR /\ [][NextCIDR]_vars

(***************************************************************************)
(* Properties of the reconcilers.                                          *)
(***************************************************************************)
ApiCount(calls, apis) == Cardinality({i \in DOMAIN calls : calls[i].api \in apis})

EnsureOps == {"EnsureEIP", "EnsureNLB", "EnsureTargetGroup", "EnsureUDPTargetGroup",
              "EnsureTarget", "EnsureListener", "EnsureWorkersAllowNodePortAccess"}

CreateAPIs == {"AllocateAddress", "CreateLoadBalancer", "CreateTargetGroup",
               "RegisterTargets", "CreateListener", "AuthorizeSecurityGroupIngress"}

DeleteAPIs == {"ReleaseAddress", "DeleteLoadBalancer", "DeleteTargetGroup",
               "ChangeResourceRecordSets.DELETE", "DeleteObject", "DeleteBucket",
               "machinesets.Delete"}

\* C1: an Ensure call that repeats the successful call before it, with the
\* same inputs and nothing done in between, issues no allocate, create,
\* register or authorize call and, unless the provider fails one of its
\* calls, returns success with the identity the first call returned.
C1_EnsureIdempotent ==
    (last.op \in EnsureOps /\ last.repeat) =>
        /\ ApiCount(last.calls, CreateAPIs) = 0
        /\ last.err # "Fault" => (last.err = "" /\ last.ret = last.prevRet)

C1_Witness ==
    /\ last.op = "EnsureTargetGroup" /\ last.repeat
    /\ last.err = "" /\ last.ret # 0 /\ last.ret = last.prevRet

\* Whether the resource a Remove call names exists in cloud c.
RemoveOps == {"RemoveEIP", "RemoveNLB", "RemoveTargetGroup", "RemoveCNameRecord",
              "RemoveIgnitionBucket", "removeWorkerMachineset"}

Present(c, op, args) ==
    CASE op = "RemoveEIP" -> AddressesNamed(c, args[1]) # {}
      [] op = "RemoveNLB" -> LBsNamed(c, args[1]) # {}
      [] op = "RemoveTargetGroup" -> TGsNamed(c, args[1]) # {}
      [] op = "RemoveCNameRecord" ->
             \E r \in c.dns : r.zone = args[1] /\ r.name = args[2]
      [] op = "RemoveIgnitionBucket" -> BucketsNamed(c, args[1]) # {}
      [] op = "removeWorkerMachineset" ->
             generateMachineSetName(args[1], args[2], S_worker) \in c.machinesets
      [] OTHER -> FALSE

\* a Remove call on an absent resource, none of whose API calls the provider fails
RemoveOfAbsent ==
    /\ last'.op \in RemoveOps
    /\ ~Present(cloud, last'.op, last'.args)
    /\ last'.err # "Fault"

\* C2 as claimed: every Remove function, called for an absent name, returns
\* success and issues no delete or release call.
C2_RemoveAbsentNoDelete ==
    [][RemoveOfAbsent => (last'.err = "" /\ ApiCount(last'.calls, DeleteAPIs) = 0)]_vars

\* C2 as amended: called for an absent name, every Remove function returns
\* success and leaves the cloud as it was; all but removeWorkerMachineset
\* issue no delete or release call, and removeWorkerMachineset issues its
\* one Delete request, whose NotFound answer it drops.
C2_RemoveAbsentSucceeds ==
    [][RemoveOfAbsent =>
         /\ last'.err = ""
         /\ cloud' = cloud
         /\ IF last'.op = "removeWorkerMachineset"
            THEN Len(last'.calls) = 1 /\ last'.calls[1].api = "machinesets.Delete"
            ELSE ApiCount(last'.calls, DeleteAPIs) = 0]_vars

\* a second removal, right after the one that removed the load balancer
C2_Witness ==
    /\ last.op = "RemoveNLB" /\ last.repeat /\ last.err = ""
    /\ ApiCount(last.calls, DeleteAPIs) = 0
    /\ LBsNamed(cloud, last.args[1]) = {}

\* C7: a target group Ensure whose name exists with another port (and whose
\* lookup is answered) issues one DeleteTargetGroup right after the lookup;
\* if the group is still there afterwards (the delete failed), no
\* CreateTargetGroup is issued and an error is returned; otherwise exactly one
\* CreateTargetGroup follows; on success the group of that name has the
\* requested port.
C7_RecreateOnPortChange ==
    [][LET name == last'.args[2]
           port == last'.args[3]
           old == {g \in cloud.tgs : g.name = name /\ g.port # port}
           calls == last'.calls
       IN (/\ last'.op \in {"EnsureTargetGroup", "EnsureUDPTargetGroup"}
           /\ old # {}
           /\ ~(Len(calls) = 1 /\ last'.err = "Fault")) =>
              /\ ApiCount(calls, {"DeleteTargetGroup"}) = 1
              /\ Len(calls) >= 2 /\ calls[2].api = "DeleteTargetGroup"
              /\ IF old \subseteq cloud'.tgs
                 THEN ApiCount(calls, {"CreateTargetGroup"}) = 0 /\ last'.err # ""
                 ELSE Len(calls) = 3 /\ calls[3].api = "CreateTargetGroup"
              /\ last'.err = "" =>
                     /\ \E g \in cloud'.tgs : g.name = name /\ g.arn = last'.ret
                     /\ \A g \in cloud'.tgs : g.name = name => g.port = port]_vars

\* the UDP target group was there with the other port and has been replaced
C7_Witness ==
    /\ last.op = "EnsureUDPTargetGroup" /\ last.err = ""
    /\ Len(last.calls) = 3
    /\ last.calls[2].api = "DeleteTargetGroup" /\ last.calls[3].api = "CreateTargetGroup"
    /\ \E g \in cloud.tgs : g.arn = last.ret /\ g.port = last.args[3] /\ g.proto = "UDP"

\* C8: when only the reconcilers act on a target group, which starts with no
\* target, it never holds more than one target, and after a successful
\* EnsureTarget it holds exactly the target of that call.
C8_SingleTarget ==
    /\ \A tg \in cloud.tgs : Cardinality(TargetsOf(cloud, tg.arn)) <= 1
    /\ (last.op = "EnsureTarget" /\ last.err = "") =>
           TargetsOf(cloud, last.args[1]) = {last.args[2]}

\* EnsureTarget(B) on a group that held A: A was deregistered, B registered
C8_Witness ==
    /\ last.op = "EnsureTarget" /\ last.err = ""
    /\ Len(last.calls) = 3
    /\ last.calls[2].api = "DeregisterTargets" /\ last.calls[3].api = "RegisterTargets"
    /\ TargetsOf(cloud, last.args[1]) = {last.args[2]}

\* C9: whatever targets the group held and in whatever order they were
\* listed, a successful EnsureTarget leaves its target as the only one
\* registered.
C9_OthersDeregistered ==
    (last.op = "EnsureTarget" /\ last.err = "") =>
        TargetsOf(cloud, last.args[1]) = {last.args[2]}

\* C10: a successful EnsureListener leaves exactly one listener on the port,
\* forwarding to the requested target group; it issues no call after the
\* lookup when such a listener was there, deletes a listener of the port that
\* forwarded elsewhere before it creates the new one, and leaves the
\* listeners of other ports and other load balancers as they were.
C10_OneListenerPerPort ==
    [][LET lbARN == last'.args[1]
           tgARN == last'.args[2]
           port == last'.args[3]
           before == ListenersOn(cloud, lbARN, port)
           after == ListenersOn(cloud', lbARN, port)
           calls == last'.calls
       IN (last'.op = "EnsureListener" /\ last'.err = "") =>
              /\ Cardinality(after) = 1
              /\ \A l \in after : l.tg = tgARN
              /\ (\E l \in before : l.tg = tgARN) =>
                     (Len(calls) = 1 /\ cloud' = cloud)
              /\ (\E l \in before : l.tg # tgARN) =>
                     /\ Len(calls) = 3
                     /\ calls[2].api = "DeleteListener" /\ calls[3].api = "CreateListener"
                     /\ before \cap cloud'.listeners = {}
              /\ (cloud.listeners \ before) = (cloud'.listeners \ after)]_vars

\* the listener of the port forwarded elsewhere and was replaced, next to a
\* listener on another port
C10_Witness ==
    /\ last.op = "EnsureListener" /\ last.err = ""
    /\ Len(last.calls) = 3 /\ last.calls[2].api = "DeleteListener"
    /\ \E l \in cloud.listeners : l.lb = last.args[1] /\ l.port # last.args[3]
    /\ \A l \in ListenersOn(cloud, last.args[1], last.args[3]) : l.tg = last.args[2]

\* C4: once the installer and the uninstaller have both computed the names
\* of a cluster, each from infraName and the cluster name alone, the name the
\* uninstaller removes equals the name the installer ensured, for the
\* Elastic IP, the three load balancers, the five target groups, the
\* ignition bucket and the worker machine set.
C4_SameNames ==
    (nm.install # NoNames /\ nm.uninstall # NoNames) =>
        /\ \A k \in DOMAIN NoNames : nm.uninstall[k] = nm.install[k] /\ nm.install[k] # NoStr
        /\ nm.install = InstallNames(nm.infra, nm.name)

\* both sides computed for a cluster whose load balancer names are truncated
C4_Witness ==
    /\ nm.install # NoNames /\ nm.uninstall # NoNames
    /\ Len(nm.infra) + 1 + Len(nm.name) + 1 + Len(S_api) > 32
    /\ nm.uninstall.apiLB = nm.install.eip /\ Len(nm.install.apiLB) = 32

\* C5 as claimed: for every base, suffix and maxLength, getName returns a
\* string (it does not slice out of range) of length at most maxLength.
C5_LengthAtMostMax ==
    gn.called => (gn.out # Panic /\ Len(gn.out) <= gn.maxLength)

\* C5 as amended: for every base, every suffix and every maxLength >= 0,
\* getName returns a string of length at most maxLength, in each of its
\* branches; for a negative maxLength it returns the empty string.
C5_LengthAtMostMaxNonNegative ==
    gn.called =>
        /\ gn.out # Panic
        /\ gn.maxLength >= 0 => Len(gn.out) <= gn.maxLength
        /\ gn.maxLength < 0 => gn.out = NoStr

\* the suffix-too-long branch, cut to exactly maxLength
C5_Witness ==
    /\ gn.called /\ gn.maxLength > 0
    /\ Len(gn.base) + 1 + Len(gn.suffix) > gn.maxLength
    /\ gn.maxLength - 10 - Len(gn.suffix) < 0
    /\ Len(gn.out) = gn.maxLength

\* C6: when len(base) + 1 + len(suffix) <= maxLength, getName returns
\* base-suffix; and the installer of cluster "demo" under infra name "abcde"
\* uses "abcde-demo-api" for the load balancer and the target group,
\* "abcde-demo-ign" for the bucket and "abcde-demo-worker" for the machine set.
C6_NaiveNameWhenItFits ==
    /\ (gn.called /\ Len(gn.base) + 1 + Len(gn.suffix) <= gn.maxLength) =>
           gn.out = gn.base \o DASH \o gn.suffix
    /\ (nm.infra = DemoInfra /\ nm.name = DemoName /\ nm.install # NoNames) =>
           /\ nm.install.apiLB = <<97, 98, 99, 100, 101, 45, 100, 101, 109, 111, 45, 97, 112, 105>>
           /\ nm.install.apiTG = <<97, 98, 99, 100, 101, 45, 100, 101, 109, 111, 45, 97, 112, 105>>
           /\ nm.install.bucket = <<97, 98, 99, 100, 101, 45, 100, 101, 109, 111, 45, 105, 103, 110>>
           /\ nm.install.machineset = <<97, 98, 99, 100, 101, 45, 100, 101, 109, 111, 45,
                                        119, 111, 114, 107, 101, 114>>

\* the installer has computed the names of cluster "demo" under "abcde"
C6_Witness ==
    /\ nm.infra = DemoInfra /\ nm.name = DemoName
    /\ nm.install # NoNames
    /\ Len(nm.install.machineset) = 17

\* C3: whatever subset of the cluster's resources was deleted before it
\* started, a run of UninstallCluster that has returned failed only if the
\* provider failed a call or the address wait timed out, never on an absent
\* resource; when it returned success it went through every remove step and
\* none of the cluster's resources remains; and a run that follows a
\* successful one succeeds unless the provider fails a call.
C3_UninstallToleratesAbsent ==
    un.pc = Returned =>
        /\ un.err \in {"", "Fault", "Timeout"}
        /\ un.err = "" =>
               /\ un.log = UninstallSteps
               /\ Remaining(cloud, DemoNames, DemoName, DemoParent, DemoZone) = {}
               /\ cloud.listeners = {} /\ cloud.targets = {}
        /\ (un.rerun /\ un.err # "Fault") => (un.err = "" /\ un.absent /\ ~un.removed)

\* after a complete install, a first run that returned success: some of its
\* steps found their resource deleted by hand, the others removed theirs
C3_Witness ==
    /\ ins.pc = Installed /\ ins.err = ""
    /\ un.pc = Returned /\ un.err = "" /\ ~un.rerun
    /\ un.absent /\ un.removed /\ un.log = UninstallSteps
    /\ Remaining(cloud, DemoNames, DemoName, DemoParent, DemoZone) = {}

\* C11: a RemoveCNameRecord call whose listing of the zone is answered: when
\* the listing holds no record under the name dnsName, it issues no change,
\* returns success and leaves the zone as it was; when it holds one, exactly
\* one DELETE change is issued, it is for dnsName with the value the listing
\* holds for that name, and if the call succeeds the record is gone.
C11_RemoveCNameDeletesWhatItRead ==
    [][LET zoneID == last'.args[1]
           dnsName == last'.args[2]
           held == {r \in cloud.dns : r.zone = zoneID /\ r.name = dnsName}
           calls == last'.calls
           deletes == {i \in DOMAIN calls : calls[i].api = "ChangeResourceRecordSets.DELETE"}
       IN (/\ last'.op = "RemoveCNameRecord"
           /\ ~(last'.err = "Fault" /\ Len(calls) = 1)) =>
              IF held = {}
              THEN last'.err = "" /\ deletes = {} /\ Len(calls) = 1 /\ cloud' = cloud
              ELSE /\ Cardinality(deletes) = 1
                   /\ Len(calls) = 2
                   /\ \E r \in held : calls[2].on = <<dnsName, r.value>>
                   /\ last'.err = "" =>
                          ~\E r \in cloud'.dns : r.zone = zoneID /\ r.name = dnsName]_vars

\* a removal that read the record's value from the zone and deleted the record
C11_Witness ==
    /\ last.op = "RemoveCNameRecord" /\ last.err = ""
    /\ Len(last.calls) = 2
    /\ last.calls[2] = Call("ChangeResourceRecordSets.DELETE", <<DemoApiDNS \o DOT, <<108, 98, 50>> >>)
    /\ cloud.dns = {}

\* every node of the listing has a Ready condition whose status is True
AllReadyTrue(items) ==
    \A i \in DOMAIN items : \E j \in DOMAIN items[i] :
        items[i][j].type = "Ready" /\ items[i][j].status = "True"

\* some node of the listing has no Ready condition
SomeWithoutReady(items) ==
    \E i \in DOMAIN items : \A j \in DOMAIN items[i] : items[i][j].type # "Ready"

\* some node of the listing reports Ready=False
SomeReadyFalse(items) ==
    \E i \in DOMAIN items : \E j \in DOMAIN items[i] :
        items[i][j].type = "Ready" /\ items[i][j].status = "False"

\* C12: waitForNodesReady has returned success only if the listing observed
\* last holds at least expectedCount nodes, each with a Ready condition of
\* status True; once such a listing is observed on an event before the
\* deadline the wait has returned success; with a listing of fewer nodes, or
\* with a node without Ready condition, observed last, it has not.
C12_SuccessIffAllReady ==
    /\ (wt.pc = "done" /\ wt.err = "") =>
           /\ wt.obs = "listing"
           /\ Len(wt.nodes) >= wt.expectedCount
           /\ AllReadyTrue(wt.nodes)
    /\ (wt.obs = "listing" /\ Len(wt.nodes) >= wt.expectedCount /\ AllReadyTrue(wt.nodes)) =>
           (wt.pc = "done" /\ wt.err = "" /\ wt.elapsed < NodesReadyTimeout)
    /\ (wt.obs = "listing" /\ (Len(wt.nodes) < wt.expectedCount \/ SomeWithoutReady(wt.nodes))) =>
           ~(wt.pc = "done" /\ wt.err = "")

\* the wait returned success in its last minute, for two nodes, after a
\* listing that was not good enough
C12_Witness ==
    /\ wt.pc = "done" /\ wt.err = "" /\ wt.expectedCount = 2 /\ Len(wt.nodes) = 2
    /\ wt.elapsed = NodesReadyTimeout - 1
    /\ wt.sawNotReady

C14_NamespaceExistsMutatesNothing ==
    /\ (ins.pc = Installed /\ DemoName \in ins.start.namespaces /\ ins.at # "facts") =>
           ins.err = "NamespaceExists" \/ (ins.err = "Fault" /\ ins.at = "namespace")
    /\ ins.err = "NamespaceExists" => (cloud = ins.start /\ ins.pc = Installed)

\* a second run stopped at the namespace the first one had created, and left
\* the namespace's objects and the Elastic IP of the first run alone
C14_Witness ==
    /\ ins.err = "NamespaceExists" /\ ins.runs = 2
    /\ DemoName \in cloud.namespaces /\ cloud.objects # {} /\ cloud.eips # {}

\* C15 as claimed: a run of InstallCluster that failed to read a fact of the
\* management cluster (the facts read first, the load balancer placement,
\* the management machine) leaves everything as it was when the run began.
C15_DiscoveryFailureMutatesNothing ==
    (ins.err # "" /\ ins.at \in {"facts", "lbInfo", "machineInfo"}) => cloud = ins.start

\* the API calls that delete something
DeletingAPIs ==
    DeleteAPIs \cup {"DeleteListener", "DeregisterTargets", "namespaces.Delete"}

\* C16: when an Ensure step of InstallCluster returns an error the run
\* returns an error with that step as its last, it has issued no deleting
\* call, and whatever the run had created before the step is still there,
\* unchanged, after it.
C16_EnsureFailureStopsAndKeeps ==
    [][(/\ ins.pc \in DOMAIN InstallSteps
        /\ InstallSteps[ins.pc] \in EnsureSteps
        /\ ins'.err # "") =>
           /\ ins'.pc = Installed /\ ins'.at = InstallSteps[ins.pc]
           /\ ins'.apis \cap DeletingAPIs = {}
           /\ \A f \in {"eips", "lbs", "tgs", "targets", "listeners", "dns", "buckets",
                         "objects", "namespaces"} :
                  (cloud[f] \ ins.start[f]) \subseteq cloud'[f]]_vars

\* the run failed at the security group rules, with everything the earlier
\* steps created in place
C16_Witness ==
    /\ ins.pc = Installed /\ ins.err = "Fault" /\ ins.at = "workersSG"
    /\ Cardinality(cloud.lbs) = 3 /\ Cardinality(cloud.tgs) = 5
    /\ Cardinality(cloud.listeners) = 5 /\ Cardinality(cloud.dns) = 3
    /\ cloud.eips # {} /\ DemoName \in cloud.namespaces

\* C17 as claimed: a run that follows a run failed at an Ensure step, and in
\* which no operation fails, returns success.
C17_RerunCompletes ==
    (ins.rerun /\ ins.pc = Installed /\ ~ins.opFailed) => ins.err = ""

\* C20 as claimed: a run in which an operation has returned an error has
\* returned an error.
C20_NoErrorDropped ==
    ins.opFailed => (ins.pc = Installed /\ ins.err # "")

\* the applier is invoked at most BackoffSteps times, a successful attempt
\* is the last one and ends the call with success
ApplyAttemptsBounded ==
    /\ Len(am.attempts) <= BackoffSteps
    /\ \A i \in DOMAIN am.attempts :
           am.attempts[i] = "ok" => (i = Len(am.attempts) /\ am.pc = "done" /\ am.err = "")
    /\ (am.pc = "done" /\ am.err = "") =>
           (am.attempts # <<>> /\ am.attempts[Len(am.attempts)] = "ok")

\* C18 as claimed: at most 3 attempts, success at the first attempt that
\* succeeds, and an error returned only after 3 failed attempts.
C18_ErrorOnlyAfterThreeAttempts ==
    /\ ApplyAttemptsBounded
    /\ (am.pc = "done" /\ am.err # "") =>
           /\ Len(am.attempts) = BackoffSteps
           /\ \A i \in DOMAIN am.attempts : am.attempts[i] \in ApplyErrors

\* C18 as amended: at most 3 attempts, success at the first attempt that
\* succeeds, a retry after every failed attempt whatever its error, and an
\* error returned either before any attempt, when an excluded manifest could
\* not be moved, or after 3 failed attempts, and then the error of the third.
C18_ErrorAfterThreeAttemptsOrRename ==
    /\ ApplyAttemptsBounded
    /\ (am.pc = "done" /\ am.err # "") =>
           \/ am.err = "Rename" /\ am.attempts = <<>> /\ am.moved < Len(excludeManifests)
           \/ /\ am.moved = Len(excludeManifests)
              /\ Len(am.attempts) = BackoffSteps
              /\ \A i \in DOMAIN am.attempts : am.attempts[i] \in ApplyErrors
              /\ am.err = am.attempts[BackoffSteps]

\* three attempts failed with three different errors
C18_Witness ==
    /\ am.pc = "done" /\ am.err = "Invalid"
    /\ am.attempts = <<"ServerTimeout", "Conflict", "Invalid">>

\* InstallCluster(name) run alone on the management cluster, no operation
\* failing: the step that returned an error and the error
RECURSIVE AloneRun(_, _, _, _)
AloneRun(c, i, ids, name) ==
    IF i > Len(InstallSteps) THEN [at |-> "", err |-> ""]
    ELSE LET r == CHOOSE x \in {InstallStep(c, InstallSteps[i], ids, {},
                                            InstallNames(DemoInfra, name), DemoInfra, name,
                                            DemoParent, DemoZone, 0)} : TRUE
         IN IF r.err # "" THEN [at |-> InstallSteps[i], err |-> r.err]
            ELSE AloneRun([r.cloud EXCEPT !.nextId = 0], i + 1,
                          [ids EXCEPT ![InstallSteps[i]] = r.ret], name)

\* C19: of two concurrent runs of InstallCluster for different cluster
\* names, in every interleaving of their steps, each ends as it ends when it
\* runs alone: at the same step and with the same outcome.
C19_ConcurrentRunsAsAlone ==
    \A k \in Runs :
        (scope = "concurrent" /\ RunOf(k).pc = Installed) =>
            \A alone \in {AloneRun(InitCloud, 1, IdleIns.ids, NameOf(k))} :
                RunOf(k).at = alone.at /\ RunOf(k).err = alone.err

\* what the install of cluster "demo" created or changed and cloud c still
\* holds, the node port rules of the worker security group left aside
LeftBehind(c) ==
    {f \in DOMAIN c \ {"sgs", "nextId"} :
        IF f = "scc" THEN c.scc.users # InitCloud.scc.users ELSE c[f] # InitCloud[f]}

\* C21: after a successful InstallCluster followed by a successful
\* UninstallCluster of the same cluster, every cloud resource and every
\* object of the management cluster that the install created or changed is
\* removed or restored, the node port rules of the worker security group
\* excepted.
C21_UninstallInvertsInstall ==
    (ins.pc = Installed /\ ins.err = "" /\ un.pc = Returned /\ un.err = "") =>
        LeftBehind(cloud) = {}

\* the steps a step depends on, as <<step, the step it needs>>
Needs ==
    {<<"apiListener", "apiLB">>, <<"apiListener", "apiTG">>,
     <<"oauthListener", "apiLB">>, <<"oauthListener", "oauthTG">>,
     <<"httpListener", "routerLB">>, <<"httpListener", "httpTG">>,
     <<"httpsListener", "routerLB">>, <<"httpsListener", "httpsTG">>,
     <<"vpnListener", "vpnLB">>, <<"vpnListener", "vpnTG">>,
     <<"apiDNS", "apiLB">>, <<"routerDNS", "routerLB">>, <<"vpnDNS", "vpnLB">>,
     <<"apiTarget", "apiTG">>, <<"oauthTarget", "oauthTG">>, <<"vpnTarget", "vpnTG">>,
     <<"apiLB", "eip">>, <<"bucket", "pki">>, <<"manifests", "render">>}

\* step l of the run under way returned success, and what it ensured is there
\* under the identity it returned
Ensured(l) ==
    /\ \E i \in 1..(ins.pc - 1) : i \in DOMAIN InstallSteps /\ InstallSteps[i] = l
    /\ l \in {"apiLB", "routerLB", "vpnLB"} => \E lb \in cloud.lbs : lb.arn = ins.ids[l]
    /\ l \in {"apiTG", "oauthTG", "httpTG", "httpsTG", "vpnTG"} =>
           \E tg \in cloud.tgs : tg.arn = ins.ids[l]
    /\ l = "eip" => \E a \in cloud.eips : a.id = ins.ids[l]

\* C22: InstallCluster takes its steps one after another, each after its
\* predecessor returned success and none after a step that failed; a
\* listener is ensured only after its load balancer and its target group, a
\* DNS record only after its load balancer, a target only after its target
\* group, the bucket only after the ignition files are generated and the
\* manifests are applied only after they are rendered.
C22_StepsInOrder ==
    [][(ins' # ins /\ ins.pc \in DOMAIN InstallSteps) =>
          /\ \/ ins'.pc = ins.pc + 1 /\ ins'.err = ""
             \/ ins'.pc = Installed /\ ins'.err # "" /\ ins'.at = InstallSteps[ins.pc]
          /\ \A i \in 1..(ins.pc - 1) : ins.ids[InstallSteps[i]] = ins'.ids[InstallSteps[i]]
          /\ \A n \in Needs : n[1] = InstallSteps[ins.pc] => Ensured(n[2])]_vars

\* a run took every step: all listeners are there
C22_Witness ==
    /\ scope = "install" /\ ins.pc = Installed /\ ins.err = ""
    /\ Cardinality(cloud.listeners) = 5
    /\ DemoName \in cloud.userData

\* step a comes before step b among the steps taken
TakenBefore(a, b) ==
    \A j \in DOMAIN un.log : un.log[j] = b => \E i \in 1..(j - 1) : un.log[i] = a

\* C23: UninstallCluster takes its remove steps in the order API DNS record,
\* API load balancer, API target group, OAuth target group, Elastic IP, VPN
\* DNS record, VPN load balancer, VPN target group, router DNS record,
\* router load balancer, router HTTP and HTTPS target groups, worker machine
\* set, ignition bucket, namespace, and takes no step after one that
\* returned an error; so a load balancer goes before its target groups, the
\* API load balancer before the Elastic IP, and the namespace last.
C23_RemoveOrder ==
    \A order \in {<<"apiDNS", "apiLB", "apiTG", "oauthTG", "eip", "vpnDNS", "vpnLB",
                    "vpnTG", "appsDNS", "appsLB", "httpTG", "httpsTG", "machineset",
                    "bucket", "namespace">>} :
        /\ Len(un.log) <= Len(order)
        /\ un.log = SubSeq(order, 1, Len(un.log))
        /\ un.pc \in 1..Len(order) => (un.err = "" /\ Len(un.log) = un.pc - 1)
        /\ (un.pc > Len(order) /\ un.err = "") => un.log = order
        /\ un.err # "" => un.pc > Len(order)
        /\ TakenBefore("apiLB", "apiTG") /\ TakenBefore("apiLB", "oauthTG")
        /\ TakenBefore("apiLB", "eip")
        /\ TakenBefore("vpnLB", "vpnTG")
        /\ TakenBefore("appsLB", "httpTG") /\ TakenBefore("appsLB", "httpsTG")
        /\ \A l \in {order[i] : i \in 1..(Len(order) - 1)} : TakenBefore(l, "namespace")

\* after a complete install, an uninstall went through all its steps and
\* removed what was there
C23_Witness ==
    /\ ins.pc = Installed /\ ins.err = ""
    /\ un.pc = Returned /\ un.err = "" /\ un.removed
    /\ Len(un.log) = Len(UninstallSteps)
    /\ Remaining(cloud, DemoNames, DemoName, DemoParent, DemoZone) = {}

\* C24: with waitForReady, InstallCluster calls the waits in the order API
\* endpoint, bootstrap pod, nodes ready, cluster operators, each only after
\* the one before returned success, and returns the error of the first wait
\* that fails; without it, it calls no wait and returns success right after
\* the manifests are applied.
C24_WaitsInOrder ==
    [][wt' # wt =>
        \A order \in {<<"api", "bootstrap", "nodes", "operators">>} :
          /\ wt'.log = SubSeq(order, 1, Len(wt'.log))
          /\ wt'.log # wt.log =>
                 /\ wt'.log = Append(wt.log, wt'.wait) /\ wt'.waitForReady
                 /\ ins.pc = Installed /\ ins.err = ""
                 /\ \/ wt.pc = "idle"
                    \/ wt.pc = "done" /\ wt.err = ""
          /\ (wt.pc = "done" /\ wt.err # "") => (wt'.pc = "returned" /\ wt'.err = wt.err)
          /\ (wt'.pc = "returned" /\ wt'.err = "") =>
                 \/ wt'.waitForReady /\ wt'.log = order
                 \/ ~wt'.waitForReady /\ wt'.log = <<>> /\ wt.pc = "idle"
          /\ ~wt'.waitForReady => (wt'.log = <<>> /\ wt'.pc = "returned" /\ wt'.err = "")
    ]_vars

\* InstallCluster returned success after the four waits, the last of which
\* had seen an operator that was not available
C24_Witness ==
    /\ wt.pc = "returned" /\ wt.err = "" /\ wt.waitForReady
    /\ wt.log = <<"api", "bootstrap", "nodes", "operators">>
    /\ Len(wt.ops) = 2

\* C25: each of the four waits, once it waits, returns: success, or an error
\* no later than the expiry of its timeout, and the timeout error at the
\* expiry; a wait that has failed has removed none of the resources the
\* install created.
C25_WaitsReturn ==
    /\ (wt.pc = "waiting") ~> (wt.pc = "done")
    /\ [][wt.pc = "waiting" => (wt'.wait = wt.wait /\ wt'.pc \in {"waiting", "done"})]_vars
    /\ [](wt.pc = "waiting" => wt.elapsed < TimeoutOf(wt.wait))
    /\ []((wt.pc = "done" /\ wt.err = "Timeout") => wt.elapsed = TimeoutOf(wt.wait))
    /\ []((wt.pc \in {"done", "returned"} /\ wt.err # "") =>
             /\ Remaining(cloud, DemoNames, DemoName, DemoParent, DemoZone)
                    = {UninstallSteps[i] : i \in DOMAIN UninstallSteps}
             /\ Cardinality(cloud.listeners) = 5
             /\ DemoName \in cloud.userData)

\* the last wait ran into its timeout
C25_Witness ==
    /\ wt.wait = "operators" /\ wt.pc = "done" /\ wt.err = "Timeout"
    /\ wt.elapsed = ClusterOperatorsReadyTimeout
    /\ wt.log = <<"api", "bootstrap", "nodes", "operators">>

\* C26: waitForAPIEndpoint returns success at the first poll whose /healthz
\* request answers 200; after a poll that ended in an error of the request
\* or in another status code the polling goes on, and the wait fails only
\* when its timeout expires.
C26_HealthzPolling ==
    (wt.wait = "api" /\ wt.pc # "returned") =>
        /\ (wt.pc = "done" /\ wt.err = "") => wt.poll = "200"
        /\ wt.poll = "200" =>
               (wt.pc = "done" /\ wt.err = ""
                /\ wt.elapsed < ApiEndpointTimeout)
        /\ wt.poll \in PollResults \ {"200"} =>
               \/ wt.pc = "waiting" /\ wt.err = "" /\ wt.elapsed < ApiEndpointTimeout
               \/ /\ wt.pc = "done" /\ wt.err = "Timeout"
                  /\ wt.elapsed = ApiEndpointTimeout

\* the endpoint answered 200 in the last minute of the wait
C26_Witness ==
    /\ wt.wait = "api" /\ wt.pc = "done" /\ wt.err = "" /\ wt.poll = "200"
    /\ wt.elapsed = ApiEndpointTimeout - 1

\* C27: waitForBootstrapPod returns success as soon as an event shows the
\* pod manifests-bootstrapper with phase Succeeded, returns an error as soon
\* as an event carries a pod of another name, and after an event that shows
\* the pod Pending, Running or Failed, and while no event comes, it waits on
\* until the timeout.
C27_BootstrapPod ==
    (wt.wait = "bootstrap" /\ wt.pc # "returned") =>
        /\ (wt.pc = "done" /\ wt.err = "") =>
               wt.pod = [name |-> "manifests-bootstrapper", phase |-> "Succeeded"]
        /\ wt.pod = [name |-> "manifests-bootstrapper", phase |-> "Succeeded"] =>
               (wt.pc = "done" /\ wt.err = "")
        /\ wt.pod.name = "other" =>
               (wt.pc = "done" /\ wt.err = "UnexpectedPodName"
                /\ wt.elapsed < BootstrapPodCompleteTimeout)
        /\ (wt.obs = "none"
            \/ (wt.pod.name = "manifests-bootstrapper"
                /\ wt.pod.phase \in {"Pending", "Running", "Failed"})) =>
               \/ /\ wt.pc = "waiting" /\ wt.err = ""
                  /\ wt.elapsed < BootstrapPodCompleteTimeout
               \/ /\ wt.pc = "done" /\ wt.err = "Timeout"
                  /\ wt.elapsed = BootstrapPodCompleteTimeout

\* the pod was seen Failed and the wait goes on in its last minute
C27_Witness ==
    /\ wt.wait = "bootstrap" /\ wt.pc = "waiting"
    /\ wt.pod = [name |-> "manifests-bootstrapper", phase |-> "Failed"]
    /\ wt.elapsed = BootstrapPodCompleteTimeout - 1

\* an operator of the listing reports an Available condition that is False
SomeAvailableFalse(items) ==
    \E i \in DOMAIN items : \E j \in DOMAIN items[i] :
        items[i][j] = Cond("Available", "False")

\* every operator of the listing reports Available=True
AllAvailableTrue(items) ==
    \A i \in DOMAIN items : \E j \in DOMAIN items[i] :
        items[i][j] = Cond("Available", "True")

\* waitForClusterOperators returns success only for a listing in which every
\* operator reports Available=True
OperatorsSuccessOnlyWhenAllAvailable ==
    (wt.wait = "operators" /\ wt.pc = "done" /\ wt.err = "") =>
        (wt.obs = "listing" /\ AllAvailableTrue(wt.ops))

C29_ReleaseOnlyWhenDetached ==
    [][LET name == last'.args[1]
           calls == last'.calls
           releases == {i \in DOMAIN calls : calls[i].api = "ReleaseAddress"}
           held == AddressesNamed(cloud, name)
           attached == {a \in held : \E lb \in cloud.lbs : lb.arn = a.lb}
       IN (scope = "addr" /\ last'.op = "RemoveEIP") =>
              /\ \A i \in DOMAIN calls : i \notin releases => calls[i] = Call("DescribeAddresses", name)
              /\ releases # {} =>
                     /\ releases = {Len(calls)}
                     /\ Len(calls) >= 2
                     /\ held # {}
                     /\ calls[Len(calls)].on = FirstAddress(cloud, name).id
                     /\ FirstAddress(cloud, name) \notin attached
                     /\ last'.err \in {"", "Fault"}
                     /\ last'.err = "" =>
                            cloud'.eips = {a \in cloud.eips : a.id # calls[Len(calls)].on}
              /\ (held # {} /\ FirstAddress(cloud, name) \in attached /\ last'.err # "Fault") =>
                     /\ last'.err = "Timeout"
              /\ last'.err = "Timeout" =>
                     /\ releases = {}
                     /\ Len(calls) = MaxPollCount
                     /\ cloud' = cloud
              /\ held = {} =>
                     /\ releases = {} /\ Len(calls) = 1 /\ cloud' = cloud
                     /\ last'.err \in {"", "Fault"}
              /\ (last'.err = "" /\ held # {}) => releases # {}]_vars

\* a removal that polled more than once while the interface of a deleted load
\* balancer was still attached, then released the address
C29_Witness ==
    /\ scope = "addr" /\ last.op = "RemoveEIP" /\ last.err = ""
    /\ Len(last.calls) >= 3
    /\ last.calls[Len(last.calls)].api = "ReleaseAddress"
    /\ last.calls[Len(last.calls) - 1].api = "DescribeAddresses"
    /\ AddressesNamed(cloud, last.args[1]) = {}

\* a removal that saw the interface of a live load balancer at every poll
C29_WitnessTimeout ==
    /\ scope = "addr" /\ last.op = "RemoveEIP" /\ last.err = "Timeout"
    /\ Len(last.calls) = MaxPollCount
    /\ AddressesNamed(cloud, last.args[1]) # {}

\* C30: EnsureNLB called with the name of an existing load balancer issues
\* the one DescribeLoadBalancers call, leaves the cloud as it was and returns
\* the ARN of that load balancer (its DNS name is LBDNS of the ARN), whatever
\* the requested subnet and allocation; CreateLoadBalancer is issued only
\* when no load balancer has the name.
C30_ExistingNLBReturnedAsIs ==
    [][LET nlbName == last'.args[1]
           calls == last'.calls
           existing == LBsNamed(cloud, nlbName)
           creates == {i \in DOMAIN calls : calls[i].api = "CreateLoadBalancer"}
       IN (scope = "addr" /\ last'.op = "EnsureNLB") =>
              /\ existing # {} =>
                     /\ calls = <<Call("DescribeLoadBalancers", nlbName)>>
                     /\ cloud' = cloud
                     /\ last'.err \in {"", "Fault"}
                     /\ last'.err = "" => \E lb \in existing : last'.ret = lb.arn
              /\ creates # {} => existing = {}
              /\ (existing = {} /\ last'.err = "") =>
                     /\ creates = {2} /\ Len(calls) = 2
                     /\ \E lb \in cloud'.lbs :
                            /\ lb.name = nlbName /\ lb.arn = last'.ret
                            /\ lb.subnet = last'.args[2] /\ lb.alloc = last'.args[3]]_vars

\* a call for an existing load balancer that asked for another subnet and
\* another allocation than the ones the load balancer has
C30_Witness ==
    /\ scope = "addr" /\ last.op = "EnsureNLB" /\ last.err = ""
    /\ last.calls = <<Call("DescribeLoadBalancers", last.args[1])>>
    /\ \E lb \in LBsNamed(cloud, last.args[1]) :
           /\ lb.arn = last.ret
           /\ lb.subnet # last.args[2]
           /\ lb.alloc # last.args[3]

\* C31: RemoveIgnitionBucket on an existing bucket issues DeleteBucket only as
\* its last call, after one listing request per page and a DeleteObject for
\* every object of the bucket, each after the request of its page, so that
\* no object remains when DeleteBucket is issued; when a listing request or
\* a DeleteObject fails it returns the error, issues no DeleteBucket and
\* keeps the bucket.
C31_BucketDrainedBeforeDelete ==
    [][LET name == last'.args[1]
           calls == last'.calls
           held == BucketsNamed(cloud, name)
           apis(a) == {i \in DOMAIN calls : calls[i].api = a}
           deleted == {calls[i].on : i \in apis("DeleteObject")}
       IN (scope = "aux" /\ last'.op = "RemoveIgnitionBucket" /\ held # {}) =>
           LET objs == (CHOOSE b \in held : TRUE).objs
               n == Cardinality(objs)
               pages == IF n = 0 THEN 1 ELSE (n + MaxKeys - 1) \div MaxKeys
           IN
              /\ calls[1].api = "GetBucketLocation"
              /\ \A i \in apis("DeleteObject") : \E j \in apis("ListObjectsV2") : j < i
              /\ deleted \subseteq objs
              /\ Cardinality(apis("DeleteObject")) = Cardinality(deleted)
              /\ apis("DeleteBucket") # {} =>
                     /\ apis("DeleteBucket") = {Len(calls)}
                     /\ deleted = objs
                     /\ Cardinality(apis("ListObjectsV2")) = pages
                     /\ Len(calls) = 2 + pages + n
                     /\ \A b \in BucketsNamed(cloud', name) : b.objs = {}
                     /\ last'.err = "" => BucketsNamed(cloud', name) = {}
              /\ (last'.err # "" /\ calls[Len(calls)].api # "DeleteBucket") =>
                     /\ apis("DeleteBucket") = {}
                     /\ BucketsNamed(cloud', name) # {}
                     /\ \A b \in BucketsNamed(cloud', name) :
                            b.objs \subseteq objs /\ objs \ b.objs \subseteq deleted
              /\ last'.err = "" => apis("DeleteBucket") # {}]_vars

\* a removal that listed two pages, deleted the objects of both and then the
\* bucket
C31_Witness ==
    /\ scope = "aux" /\ last.op = "RemoveIgnitionBucket" /\ last.err = ""
    /\ Cardinality({i \in DOMAIN last.calls : last.calls[i].api = "ListObjectsV2"}) = 2
    /\ Cardinality({i \in DOMAIN last.calls : last.calls[i].api = "DeleteObject"}) = MaxObjects
    /\ last.calls[Len(last.calls)].api = "DeleteBucket"
    /\ cloud.buckets = {}

\* C32: EnsureIgnitionBucket issues CreateBucket if and only if no bucket has
\* the name; for an existing bucket it issues PutBucketTagging whatever the
\* existence probe returned and, when it returns success, the bucket is
\* tagged and holds the object worker.ign.
C32_CreateBucketIffAbsent ==
    [][LET name == last'.args[1]
           calls == last'.calls
           apis(a) == {i \in DOMAIN calls : calls[i].api = a}
           absent == BucketsNamed(cloud, name) = {}
       IN (scope = "aux" /\ last'.op = "EnsureIgnitionBucket") =>
              /\ (apis("CreateBucket") # {}) <=> absent
              /\ ~absent => apis("PutBucketTagging") # {}
              /\ last'.err = "" =>
                     /\ apis("Upload") = {Len(calls)}
                     /\ \A b \in BucketsNamed(cloud', name) : b.tagged /\ S_workerIgn \in b.objs
                     /\ BucketsNamed(cloud', name) # {}]_vars

\* the rules of the worker security group
WorkerRules(c) == UNION {g.perms : g \in SGsNamed(c, DemoInfra \o S_workerSG)}

\* C33: EnsureWorkersAllowNodePortAccess issues one AuthorizeSecurityGroupIngress
\* for each of the two node-port rules that the worker security group lacks
\* and for nothing else, so none when both are there and the UDP one alone
\* when the TCP rule is there; the rules it found stay as they were; and no
\* step of an install or an uninstall takes a rule from the group.
C33_AddsOnlyMissingRules ==
    /\ [][LET calls == last'.calls
               adds == {i \in DOMAIN calls : calls[i].api = "AuthorizeSecurityGroupIngress"}
               missing == {TCPRule, UDPRule} \ WorkerRules(cloud)
           IN (scope = "aux" /\ last'.op = "EnsureWorkersAllowNodePortAccess") =>
                  /\ calls[1].api = "DescribeSecurityGroups"
                  /\ adds = 2..Len(calls)
                  /\ {calls[i].on : i \in adds} \subseteq {r.proto : r \in missing}
                  /\ Cardinality(adds) <= Cardinality(missing)
                  /\ WorkerRules(cloud) \subseteq WorkerRules(cloud')
                  /\ WorkerRules(cloud') \subseteq WorkerRules(cloud) \cup missing
                  /\ missing = {} => cloud' = cloud
                  /\ last'.err = "" =>
                         /\ {calls[i].on : i \in adds} = {r.proto : r \in missing}
                         /\ WorkerRules(cloud') = WorkerRules(cloud) \cup missing]_vars
    /\ [][WorkerRules(cloud) \subseteq WorkerRules(cloud')]_vars

\* a second run, after one that added the TCP rule and failed on the UDP
\* rule: it added the UDP rule alone
C33_Witness ==
    /\ scope = "aux" /\ last.op = "EnsureWorkersAllowNodePortAccess" /\ last.err = ""
    /\ Len(last.calls) = 2
    /\ last.calls[2] = Call("AuthorizeSecurityGroupIngress", "udp")
    /\ {TCPRule, UDPRule} \subseteq WorkerRules(cloud)
    /\ Cardinality(WorkerRules(cloud)) = 3

\* an uninstall that ended with success and left the node-port rules
C33_WitnessUninstall ==
    /\ scope = "uninstall" /\ ins.pc = Installed /\ ins.err = "" /\ un.pc = Returned /\ un.err = ""
    /\ {TCPRule, UDPRule} \subseteq WorkerRules(cloud)

\* the last address of a set of addresses
LastOf(S) == CHOOSE x \in S : \A y \in S : y <= x

\* the addresses of the network a CIDR denotes
AddressesOf(cidr) ==
    {a \in 0..(AddrSpace - 1) : a \div SubnetSize(cidr.len) = cidr.ip \div SubnetSize(cidr.len)}

\* the new CIDR has the prefix length of the management CIDR, starts right
\* after its last address and lies within the address space
FollowsManagement(new, mgmt) ==
    /\ new.len = mgmt.len
    /\ new.ip = LastOf(AddressesOf(mgmt)) + 1
    /\ new.ip + SubnetSize(new.len) <= AddrSpace
    /\ AddressesOf(new) \cap AddressesOf(mgmt) = {}
    /\ Cardinality(AddressesOf(new)) = Cardinality(AddressesOf(mgmt))

\* C34: the service CIDR and the pod CIDR InstallCluster computes have the
\* prefix length of the management cluster's CIDR, start right after its
\* last address and share no address with it; InstallCluster returns an
\* error exactly when the management service CIDR or pod CIDR ends at the
\* last address of the address space.
C34_NextSubnetNoOverlapNoWrap ==
    (scope = "cidr" /\ last.op = "InstallCluster.CIDRs") =>
        LET serviceCIDR == last.args[1]
            podCIDR == last.args[2]
            atEnd(mgmt) == LastOf(AddressesOf(mgmt)) = AddrSpace - 1
        IN /\ last.err = "" =>
                  /\ FollowsManagement(last.ret.service, serviceCIDR)
                  /\ FollowsManagement(last.ret.pod, podCIDR)
           /\ last.err # "" <=> (atEnd(serviceCIDR) \/ atEnd(podCIDR))

\* a management service CIDR written with host bits, in the middle of the
\* address space: the new service CIDR is the subnet after it
C34_Witness ==
    /\ scope = "cidr" /\ last.op = "InstallCluster.CIDRs" /\ last.err = ""
    /\ last.args[1] = [ip |-> 5, len |-> AddrBits - 2]
    /\ last.ret.service = [ip |-> 8, len |-> AddrBits - 2]

\* a management pod CIDR that ends at the last address: an error
C34_WitnessExceeds ==
    /\ scope = "cidr" /\ last.op = "InstallCluster.CIDRs"
    /\ last.err = "PodCIDRExceedsMax"
    /\ last.args[2].len > 0

\* the manifests of the exclusion list
Excluded == {excludeManifests[i] : i \in DOMAIN excludeManifests}

\* C35: applyManifests applies nothing before every manifest of the
\* exclusion list is moved out of the directory, each moved once, so no
\* attempt applies an excluded manifest; when an excluded manifest is
\* missing it ends with the rename error and no attempt; and when it is
\* called, the object of every excluded manifest is in the namespace,
\* created by a step of the same run.
C35_ExcludedNeverApplied ==
    /\ am.applied \cap Excluded = {}
    /\ (am.pc = "applying" \/ am.attempts # <<>>) =>
           /\ am.moved = Len(excludeManifests)
           /\ am.present = am.given \ Excluded
           /\ Excluded \subseteq am.given
    /\ am.pc \in {"moving", "applying", "done"} =>
           /\ am.present \cap {excludeManifests[i] : i \in 1..am.moved} = {}
           /\ am.given \ am.present = {excludeManifests[i] : i \in 1..am.moved}
    /\ (am.pc = "done" /\ ~(Excluded \subseteq am.given)) =>
           (am.err = "Rename" /\ am.attempts = <<>> /\ am.applied = {})
    /\ am.pc # "idle" =>
           \A f \in Excluded :
               LET obj == [ns |-> DemoName, kind |-> CreatedDirectly[f].kind,
                           name |-> CreatedDirectly[f].name]
               IN /\ obj \in cloud.objects
                  /\ obj \notin ins.start.objects
                  /\ \E i \in 1..(ManifestsStep - 1) : InstallSteps[i] = CreatedDirectly[f].step

\* an attempt that applied the other manifests after the five excluded ones
\* were moved away
C35_Witness ==
    /\ scope = "runApply" /\ am.pc = "done" /\ am.err = ""
    /\ am.moved = Len(excludeManifests)
    /\ am.applied = OtherManifests
    /\ Excluded \subseteq am.given

\* a directory without the branding manifest: the rename error, no attempt
C35_WitnessMissing ==
    /\ scope = "runApply" /\ am.pc = "done" /\ am.err = "Rename"
    /\ am.given \cap Excluded = Excluded \ {"v4-0-config-system-branding.yaml"}
    /\ am.moved = 3 /\ am.attempts = <<>>

\* the position of createPullSecret in InstallCluster
PullSecretStep == CHOOSE i \in DOMAIN InstallSteps : InstallSteps[i] = "pullSecret"

\* C36: once createPullSecret has returned success to InstallCluster, the
\* Secret pull-secret is in the namespace and the default service account
\* of the namespace lists pull-secret among its imagePullSecrets.
C36_PullSecretAttached ==
    (ins.pc \in (PullSecretStep + 1)..Len(InstallSteps) /\ ins.err = "") =>
        /\ [ns |-> DemoName, kind |-> "secrets", name |-> "pull-secret"] \in cloud.objects
        /\ DemoName \in cloud.saPull

\* C37: the bootstrap wait of cluster demo ends before its timeout, with
\* success or with an error, only on an event of a pod of namespace demo.
C37_OwnBootstrapPodOnly ==
    (wt.wait = "bootstrap" /\ wt.pc = "done" /\ wt.err # "Timeout") => wt.podNs = "demo"

\* C38: whatever EnsureEIP and the other reconciler calls on the name did
\* and returned, the account holds at most one Elastic IP allocated for the
\* name, and every address allocated carries the tag Name=name.
C38_OneTaggedAddress ==
    scope = "addr" =>
        /\ Cardinality(cloud.eips) <= 1
        /\ \A a \in cloud.eips : a.tag = DemoApiName

\* the run is past the creation of the namespace
PastNamespace(run) == run.pc > NamespaceStep /\ ~(run.err # "" /\ run.at = "namespace")

\* C39: of two runs of InstallCluster for the same name at most one gets
\* past the creation of the namespace, whatever the order of the two
\* existence checks and the two creations; no step of a run that is not
\* past it, and no step by which a run returns the error of its existence
\* check or of its creation, changes anything.
C39_OneRunPastNamespace ==
    /\ [](scope = "sameName" => ~(PastNamespace(ins) /\ PastNamespace(ins2)))
    /\ [][scope = "sameName" =>
             \A k \in Runs :
                 LET before == IF k = 1 THEN ins ELSE ins2
                     after == IF k = 1 THEN ins' ELSE ins2'
                 IN (after # before /\ ~PastNamespace(after)) =>
                        /\ cloud' = cloud
                        /\ after.apis \subseteq
                               {"getSSHPublicKey", "getAWSCredentials", "getReleaseImage",
                                "getPullSecret", "getInfrastructureInfo", "getNetworkInfo",
                                "getDNSZoneInfo", "getMachineNames",
                                "namespaces.Get", "namespaces.Create"}]_vars
    /\ [](scope = "sameName" =>
             \A k \in Runs :
                 (RunOf(k).pc = Installed /\ PastNamespace(RunOf(3 - k))) =>
                     (PastNamespace(RunOf(k)) \/ RunOf(k).err \in {"NamespaceExists", "AlreadyExists", "Fault"}))

\* both runs found no namespace; the first created it and went on to the
\* end, the second had its creation refused
C39_Witness ==
    /\ scope = "sameName"
    /\ ins.pc = Installed /\ ins.err = ""
    /\ ins2.pc = Installed /\ ins2.err = "AlreadyExists" /\ ins2.at = "namespace"
    /\ "namespaces.Create" \in ins2.apis

(***************************************************************************)
(* KubeletServingCASyncer: the controller of the control plane operator    *)
(* that copies the kubelet serving CA into the target cluster.             *)
(***************************************************************************)
ControlPlaneOperatorConfig == "control-plane-operator"

\* s.Namespace, the namespace of the control plane the syncer runs in
SyncerNamespace == "demo"

syncInterval == 300

RequestNamespaces == {SyncerNamespace, "prod"}

RequestNames == {ControlPlaneOperatorConfig, "kube-apiserver"}

CAValues == {"", "ca-1", "ca-2"}

\* the result of a reconciliation: an error, or a requeue after syncInterval
result(c, err, calls) ==
    IF err # "" THEN Ret(c, 0, err, calls) ELSE Ret(c, syncInterval, "", calls)

expectedConfigMap(source) == [exists |-> TRUE, hasData |-> TRUE, ca |-> source.ca]

\* a syncer that creates the target config map and never updates it
Reconcile_CreateOnly(c, reqNamespace, reqName, fault) ==
    IF reqNamespace # SyncerNamespace \/ reqName # ControlPlaneOperatorConfig
    THEN result(c, "", <<>>)
    ELSE LET c1 == <<Call("ConfigMaps.Get", ControlPlaneOperatorConfig)>>
             c2 == Append(c1, Call("Target.ConfigMaps.Get", "kubelet-serving-ca"))
             c3 == Append(c2, Call("Target.ConfigMaps.Create", "kubelet-serving-ca"))
         IN IF Fault(fault, <<>>) THEN Ret(c, 0, "Fault", c1)
            ELSE IF ~c.cpConfig.exists THEN Ret(c, 0, "NotFound", c1)
            ELSE IF Fault(fault, c1) THEN result(c, "Fault", c2)
            ELSE IF ~c.kubeletCA.exists
                 THEN IF Fault(fault, c2) THEN result(c, "Fault", c3)
                      ELSE result([c EXCEPT !.kubeletCA = expectedConfigMap(c.cpConfig)],
                                  "", c3)
                 ELSE result(c, "", c2)

\* Reconcile of KubeletServingCASyncer for the request reqNamespace/reqName.
\* An assignment to an entry of a nil Data map panics: the call returns
\* nothing, which is the error "Panic" here.
Reconcile(c, reqNamespace, reqName, fault) ==
    IF reqNamespace # SyncerNamespace THEN result(c, "", <<>>)
    ELSE IF reqName # ControlPlaneOperatorConfig THEN result(c, "", <<>>)
    ELSE LET c1 == <<Call("ConfigMaps.Get", ControlPlaneOperatorConfig)>>
             c2 == Append(c1, Call("Target.ConfigMaps.Get", "kubelet-serving-ca"))
             c3 == Append(c2, Call("Target.ConfigMaps.Create", "kubelet-serving-ca"))
             u3 == Append(c2, Call("Target.ConfigMaps.Update", "kubelet-serving-ca"))
             expected == expectedConfigMap(c.cpConfig)
         IN IF Fault(fault, <<>>) THEN Ret(c, 0, "Fault", c1)
            ELSE IF ~c.cpConfig.exists THEN Ret(c, 0, "NotFound", c1)
            ELSE IF Fault(fault, c1) THEN result(c, "Fault", c2)
            ELSE IF ~c.kubeletCA.exists
                 THEN IF Fault(fault, c2) THEN result(c, "Fault", c3)
                      ELSE result([c EXCEPT !.kubeletCA = expected], "", c3)
            ELSE IF c.kubeletCA.ca # expected.ca
                 THEN IF ~c.kubeletCA.hasData THEN Ret(c, 0, "Panic", c2)
                      ELSE IF Fault(fault, c2) THEN result(c, "Fault", u3)
                      ELSE result([c EXCEPT !.kubeletCA.ca = expected.ca], "", u3)
            ELSE result(c, "", c2)

InitSyncer ==
    /\ cloud = InitCloud
    /\ last = NoCall
    /\ scope = "syncer"
    /\ ins = IdleIns
    /\ un = IdleUn
    /\ gn = IdleGn
    /\ nm = IdleNm
    /\ wt = IdleWt
    /\ am = IdleAm
    /\ ins2 = IdleIns

\* The controller runs Reconcile for a request of its queue.
DoReconcile ==
    /\ scope = "syncer"
    /\ \E reqNamespace \in RequestNamespaces, reqName \in RequestNames, fault \in 0..3 :
           \E r \in {Reconcile(cloud, reqNamespace, reqName, fault)} :
               /\ cloud' = r.cloud
               /\ last' = [NoCall EXCEPT !.op = "Reconcile",
                                         !.args = <<reqNamespace, reqName>>,
                                         !.ret = r.ret, !.err = r.err, !.calls = r.calls]
    /\ UNCHANGED <<scope, ins, un, gn, nm, wt, am, ins2>>

\* The control plane operator's config map is written or deleted in the
\* management cluster.
EnvWriteSource ==
    /\ scope = "syncer"
    /\ \E source \in {[exists |-> FALSE, ca |-> ""]}
                         \cup {[exists |-> TRUE, ca |-> v] : v \in CAValues} :
           /\ source # cloud.cpConfig
           /\ cloud' = [cloud EXCEPT !.cpConfig = source]
           /\ last' = [NoCall EXCEPT !.op = "env.WriteSource", !.args = <<source>>]
    /\ UNCHANGED <<scope, ins, un, gn, nm, wt, am, ins2>>

\* A user of the target cluster writes or deletes kubelet-serving-ca.
EnvWriteTarget ==
    /\ scope = "syncer"
    /\ \E target \in {[exists |-> FALSE, hasData |-> FALSE, ca |-> ""],
                      [exists |-> TRUE, hasData |-> FALSE, ca |-> ""]}
                         \cup {[exists |-> TRUE, hasData |-> TRUE, ca |-> v] : v \in CAValues} :
           /\ target # cloud.kubeletCA
           /\ cloud' = [cloud EXCEPT !.kubeletCA = target]
           /\ last' = [NoCall EXCEPT !.op = "env.WriteTarget", !.args = <<target>>]
    /\ UNCHANGED <<scope, ins, un, gn, nm, wt, am, ins2>>

NextSyncer ==
    \/ DoReconcile
    \/ EnvWriteSource
    \/ EnvWriteTarget

SpecSyncer == InitSyncer /\ [][NextSyncer]_vars

\* the calls of a call log that write to the target cluster
TargetWrites(calls) ==
    {i \in DOMAIN calls :
         calls[i].api \in {"Target.ConfigMaps.Create", "Target.ConfigMaps.Update"}}

\* C40: a Reconcile for control-plane-operator of the syncer's namespace that
\* succeeds leaves kubelet-serving-ca in the target cluster with ca-bundle.crt
\* equal to initial-ca.crt of the source; when the target held that value
\* already, no call creates or updates it; a Reconcile for another namespace
\* or another name issues no call and changes nothing.
C40_KubeletCASynced ==
    [][(scope = "syncer" /\ last'.op = "Reconcile") =>
          IF last'.args = <<SyncerNamespace, ControlPlaneOperatorConfig>>
          THEN /\ last'.err = "" =>
                      /\ cloud'.kubeletCA.exists
                      /\ cloud'.kubeletCA.ca = cloud.cpConfig.ca
                      /\ cloud'.cpConfig = cloud.cpConfig
               /\ (cloud.cpConfig.exists /\ cloud.kubeletCA.exists
                       /\ cloud.kubeletCA.ca = cloud.cpConfig.ca) =>
                      /\ TargetWrites(last'.calls) = {}
                      /\ cloud' = cloud
          ELSE /\ last'.calls = <<>>
               /\ cloud' = cloud
               /\ last'.err = ""]_vars

\* a Reconcile replaced the stale value of the target by the source's
C40_Witness ==
    /\ scope = "syncer"
    /\ last.op = "Reconcile" /\ last.err = ""
    /\ last.args = <<SyncerNamespace, ControlPlaneOperatorConfig>>
    /\ \E i \in DOMAIN last.calls : last.calls[i].api = "Target.ConfigMaps.Update"
    /\ cloud.kubeletCA = [exists |-> TRUE, hasData |-> TRUE, ca |-> "ca-2"]
    /\ cloud.cpConfig.ca = "ca-2"

\* a Reconcile found the target in step with the source and wrote nothing
C40_WitnessInSync ==
    /\ scope = "syncer"
    /\ last.op = "Reconcile" /\ last.err = "" /\ last.ret = syncInterval
    /\ Len(last.calls) = 2
    /\ cloud.kubeletCA.exists /\ cloud.kubeletCA.ca = "ca-1"

\* a Reconcile for another namespace returned at once
C40_WitnessOther ==
    /\ scope = "syncer"
    /\ last.op = "Reconcile" /\ last.args[1] # SyncerNamespace
    /\ last.calls = <<>>
    /\ cloud.cpConfig.exists

====
